---- MODULE Spec2Model ----
(***************************************************************************)
(* MindCare: the symptom assessment engine.                                *)
(*                                                                         *)
(*   backend/model/llm_model.py   BDIAssessmentModel: the batch request,   *)
(*                                its retries, the per-symptom fallback    *)
(*                                and the parser of the batch response     *)
(*                                                                         *)
(* A text is modelled as the sequence of its tokens: white space, a sign   *)
(* and every digit of a number are tokens of their own, a word is one      *)
(* token.  A line of a response is the pair of its head (the stripped      *)
(* line up to and including its first colon, "" when it has none) and its  *)
(* rest (the tokens after that colon): every key the parser looks for ends *)
(* with its only colon, so line.startswith(key) is head = key and          *)
(* line.split(":", 1)[1] is rest.                                          *)
(* Durations are in milliseconds.                                          *)
(***************************************************************************)
EXTENDS Integers, Sequences, FiniteSets, TLC

VARIABLES
    \* ---- assess_all_symptoms: one call of the orchestrator
    pc,             \* where the call is
    attempt,        \* assess_all_symptoms_batch: the loop variable (0-based)
    wait_time,      \* the argument of the pending time.sleep, in ms
    fb_i,           \* _assess_all_symptoms_fallback: enumerate's index i
    fb_attempt,     \* predict_level: the loop variable (0-based)
    results,        \* the results dict being built
    ret,            \* what assess_all_symptoms returned (NoValue before)
    \* ---- what the completion service and time.sleep have seen
    outcome,        \* the last completion: [kind, text] or [kind, msg]
    transients,     \* transient failures the service has answered so far
    batch_log,      \* the kinds of the batch completions' outcomes, in order
    symptom_requests, \* completions requested for the symptom fb_i
    requested,      \* the symptoms a completion was requested for, in order
    batch_waits,    \* the backoff sleeps of the batch path, in order
    delays,         \* inter-symptom sleeps done
    slept,          \* the duration of the last time.sleep (0: none yet)
    \* ---- _parse_batch_response
    p_pc,           \* off | scan | done
    p_text,         \* the response: a sequence of lines
    p_n,            \* lines scanned
    p_results,      \* the parser's results dict
    \* ---- score_bdi: scoring one assessment
    s_pc,           \* off | input | scored
    assessment_results, \* the argument of calculate_total_score
    total_score,    \* what calculate_total_score returned
    category,       \* what get_depression_category returned
    \* ---- the personal dashboard: load, aggregate, gate, analyse
    d_pc,           \* off | page | entries | sessions | gated | analysed | stopped
    now,            \* datetime.now() when the page runs, in hours
    stored,         \* the user's rows of journal_entries, newest first
    entry_df,       \* what prepare_dashboard_data returned
    session_df,     \* what _build_session_df returned
    req,            \* what evaluate_recent_data_requirements returned
    analysis,       \* what analyze_depression returned
    \* ---- the journal pages: the tables and the renderings that write them
    journal_entries, \* table journal_entries: id -> row (NoValue: no row)
    bdi_assessments, \* table bdi_assessments: the rows, in insertion order
    page,           \* each rendering: where it is and its local variables
    handled,        \* how the last analysis of each entry went
    steps,          \* the pending-entry processors' steps: <<step, rendering, id, text>>
    submitted,      \* forms submitted so far (typed, upload, edit)
    faults          \* failures and interruptions the renderings have met

vars == <<pc, attempt, wait_time, fb_i, fb_attempt, results, ret, outcome,
          transients, batch_log, symptom_requests, requested, batch_waits,
          delays, slept, p_pc, p_text, p_n, p_results,
          s_pc, assessment_results, total_score, category,
          d_pc, now, stored, entry_df, session_df, req, analysis,
          journal_entries, bdi_assessments, page, handled, steps, submitted,
          faults>>

orch_vars == <<pc, attempt, wait_time, fb_i, fb_attempt, results, ret, outcome,
               transients, batch_log, symptom_requests, requested,
               batch_waits, delays, slept>>

parse_vars == <<p_pc, p_text, p_n, p_results>>

score_vars == <<s_pc, assessment_results, total_score, category>>

dash_vars == <<d_pc, now, stored, entry_df, session_df, req, analysis>>

journal_vars == <<journal_entries, bdi_assessments, page, handled, steps,
                  submitted, faults>>

\* The state of the engine (llm_model.py) and the state of the pages.
engine_vars == <<orch_vars, parse_vars>>
app_vars == <<score_vars, dash_vars, journal_vars>>
\* What the journal pages leave alone.
other_vars == <<engine_vars, score_vars, dash_vars>>

(***************************************************************************)
(* Bounds of the model.                                                    *)
(***************************************************************************)
\* Transient (429/504) failures the completion service answers in one call.
MaxTransient == 6
\* Lines of a response given to the parser on its own.
MaxLines == 3
\* The highest level an assessment handed to the scorer holds (3 is the
\* highest valid one).
MaxInputLevel == 4
\* How far beyond 0 and 63 the scores handed to the categoriser go.
ScoreMargin == 2
\* The last day of the model's calendar (day 0 is its first).
LastDay == 70
\* Rows of an entry frame given to the session aggregation on its own.
MaxEntries == 3
\* Sessions of a history given to the analysis on its own.
MaxSessions == 12
MaxMessages == 12
MaxSymptomSessions == 3
\* Rows the table journal_entries can hold.
MaxStored == 2
\* Renderings of the journal pages that run at the same time.
MaxRenderings == 2
\* Forms submitted (typed entry, file upload, edit) in one run of the model.
MaxSubmitted == 2
\* Rows of one uploaded file.
MaxUploadRows == 2
\* Times the text of an entry is edited.
MaxEdits == 1
\* Failures (an exception in the analysis, a failing save) and
\* interruptions of a rendering in one run of the model.
MaxFaults == 1

(***************************************************************************)
(* Program constants.                                                      *)
(***************************************************************************)
NumSymptoms == 21
BatchMaxRetries == 3
PredictMaxRetries == 5
BackoffSeconds == 5
FallbackDelayMs == 2500
MinLevel == 0
MaxLevel == 3
BDI_QUESTIONS == 21
BDI_MILD_THRESHOLD == 10
STREAK_MIN == 5
WINDOW_DAYS == 30
MIN_ENTRIES_FOR_DETECTION == 10
HighConfidenceEntries == 20
SeverityEntries == 7
TrendMinEntries == 4
TopSymptoms == 3
MIN_DISTINCT_DAYS == 5
DashboardWindowDays == 90
EntriesLimit == 1000
PendingLimit == 50
MAX_SCORE_PER_QUESTION == 3
MAX_TOTAL_SCORE == BDI_QUESTIONS * MAX_SCORE_PER_QUESTION

qid(i) == "Q" \o ToString(i)

\* prompt_template.REPHRASED_BDI, in its insertion order.
SymptomTexts ==
    << "how sad the user feels",
       "how discouraged the user is about future",
       "how much the user feels like a failure",
       "how much the user loses pleasure from things",
       "how often the user feels guilty",
       "how much the user feels punished",
       "how much the user feels disappointed about him/herself",
       "how often the user criticizes or blames him/herself",
       "how much the user thinks about killing him/herself",
       "how often the user cries",
       "how much the user feels restless or agitated",
       "how much the user loses interest in things",
       "how difficult the user to make decisions",
       "how much the user feels worthless",
       "how much the user loses energy",
       "how much the user experienced changes in sleeping",
       "how much the user feels irritable",
       "how much the user experienced changes in appetite",
       "how difficult the user to concentrate",
       "how much the user feels tired or fatigued",
       "how much the user loses interest in sex" >>

REPHRASED_BDI == [q \in {qid(i) : i \in 1..NumSymptoms} |->
                    SymptomTexts[CHOOSE i \in 1..NumSymptoms : qid(i) = q]]

QIDS == DOMAIN REPHRASED_BDI

NoValue == [none |-> TRUE]
EmptyDict == [k \in {} |-> 0]

(***************************************************************************)
(* Text helpers: str.strip and int().                                      *)
(***************************************************************************)
IsSpace(c) == c \in {" ", "\t"}

RECURSIVE LStrip(_)
LStrip(s) == IF s # <<>> /\ IsSpace(Head(s)) THEN LStrip(Tail(s)) ELSE s

RECURSIVE RStrip(_)
RStrip(s) == IF s # <<>> /\ IsSpace(s[Len(s)])
             THEN RStrip(SubSeq(s, 1, Len(s) - 1)) ELSE s

Strip(s) == RStrip(LStrip(s))

DigitChars == <<"0", "1", "2", "3", "4", "5", "6", "7", "8", "9">>
IsDigit(c) == \E k \in 1..Len(DigitChars) : DigitChars[k] = c
DigitVal(c) == (CHOOSE k \in 1..Len(DigitChars) : DigitChars[k] = c) - 1

RECURSIVE DigitsValue(_)
DigitsValue(s) == IF s = <<>> THEN 0
                  ELSE DigitsValue(SubSeq(s, 1, Len(s) - 1)) * Len(DigitChars)
                       + DigitVal(s[Len(s)])

\* int(s): an optional sign and at least one digit, else ValueError.
py_int(s) ==
    LET t      == Strip(s)
        signed == t # <<>> /\ Head(t) \in {"+", "-"}
        digits == IF signed THEN Tail(t) ELSE t
        ok     == digits # <<>> /\ \A k \in 1..Len(digits) : IsDigit(digits[k])
    IN  IF ok
        THEN [ok |-> TRUE,
              value |-> IF signed /\ Head(t) = "-" THEN 0 - DigitsValue(digits)
                        ELSE DigitsValue(digits)]
        ELSE [ok |-> FALSE, value |-> 0]

(***************************************************************************)
(* _parse_batch_response (llm_model.py 83-140).                            *)
(***************************************************************************)
UnableToAssess == <<"Unable to assess">>

level_key(i)  == qid(i) \o "_LEVEL:"
reason_key(i) == qid(i) \o "_REASON:"

\* Mutant: a tag already stored is kept (first write wins).
SetField_KeepFirst(res, q, field, v) ==
    LET old == IF q \in DOMAIN res THEN res[q] ELSE EmptyDict
    IN  (q :> (old @@ (field :> v))) @@ res

\* results[q] = results.get(q, {}); results[q][field] = v
SetField(res, q, field, v) ==
    LET old == IF q \in DOMAIN res THEN res[q] ELSE EmptyDict
    IN  (q :> ((field :> v) @@ old)) @@ res

\* The level a Qn_LEVEL line stores (lines 105-115): the parsed integer,
\* 0 when it is out of range or when int() raises ValueError.
ParsedLevel(rest) ==
    LET p == py_int(Strip(rest))
    IN  IF p.ok
        THEN IF p.value < MinLevel \/ p.value > MaxLevel THEN 0 ELSE p.value
        ELSE 0

\* except (ValueError, IndexError), line 113.
LevelCatches == {"ValueError", "IndexError"}

\* Whether scanning the line raises out of _parse_batch_response: int() is
\* the only call of the loop body that can raise, and it raises ValueError.
LineRaises(line) ==
    /\ \E i \in 1..NumSymptoms : line.head = level_key(i)
    /\ ~py_int(Strip(line.rest)).ok
    /\ "ValueError" \notin LevelCatches

\* The value a Qn_REASON line stores (line 119).
ParsedReason(rest) == Strip(rest)

\* One pass of "for i in range(1, 22)" over one stripped line (lines 99-124):
\* at most one key matches, as all keys differ and each ends with the colon.
ScanLine(res, line) ==
    IF \E i \in 1..NumSymptoms : line.head = level_key(i)
    THEN LET i == CHOOSE i \in 1..NumSymptoms : line.head = level_key(i)
         IN  SetField(res, qid(i), "level", ParsedLevel(line.rest))
    ELSE IF \E i \in 1..NumSymptoms : line.head = reason_key(i)
    THEN LET i == CHOOSE i \in 1..NumSymptoms : line.head = reason_key(i)
         IN  SetField(res, qid(i), "reason", ParsedReason(line.rest))
    ELSE res

\* Mutant: only the identifiers wholly absent are filled in.
FillDefaults_MissingOnly(res) ==
    [q \in QIDS \cup DOMAIN res |->
        IF q \in DOMAIN res THEN res[q]
        ELSE [level |-> 0, reason |-> UnableToAssess]]

\* "Fill in any missing entries with defaults" (lines 127-138).
FillDefaults(res) ==
    [q \in QIDS \cup DOMAIN res |->
        IF q \notin QIDS THEN res[q]
        ELSE IF q \notin DOMAIN res
        THEN [level |-> 0, reason |-> UnableToAssess]
        ELSE (IF "level" \in DOMAIN res[q] THEN EmptyDict ELSE ("level" :> 0))
             @@ (IF "reason" \in DOMAIN res[q] THEN EmptyDict
                 ELSE ("reason" :> UnableToAssess))
             @@ res[q]]

(***************************************************************************)
(* The completion service: what model.generate_content may answer.        *)
(***************************************************************************)
Line(head, rest) == [head |-> head, rest |-> rest]

\* A response of the batch prompt's format: both tags for every symptom.
FullResponse(levelRest, reasonRest) ==
    [k \in 1..(2 * NumSymptoms) |->
        IF k % 2 = 1 THEN Line(level_key((k + 1) \div 2), levelRest)
        ELSE Line(reason_key(k \div 2), reasonRest)]

\* The batch responses the service is let to answer with.
BatchResponses ==
    { FullResponse(<<" ", "2">>, <<" ", "often", " ", "sad">>),
      FullResponse(<<" ", "7">>, <<" ", "overwhelmed">>),
      << Line(level_key(1), <<" ", "3">>), Line("Note:", <<" ", "done">>) >>,
      << Line("", <<>>) >>,
      << >> }

\* The responses of the per-symptom prompt's format (LEVEL: / REASON:).
SymptomResponses ==
    { << Line("LEVEL:", <<" ", "2">>), Line("REASON:", <<" ", "often", " ", "sad">>) >>,
      << Line("LEVEL:", <<" ", "7">>), Line("REASON:", <<" ", "overwhelmed">>) >>,
      << Line("LEVEL:", <<" ", "high">>) >> }

\* str(e).lower() of the errors the service raises.
TransientErrors == { <<"429", " ", "resource exhausted">>,
                     <<"504", " ", "deadline exceeded">> }
OtherErrors     == { <<"500", " ", "internal error">> }

Ok(text)   == [kind |-> "ok", text |-> text]
Error(msg) == [kind |-> "error", msg |-> msg]

\* '429' in error_msg or '504' in error_msg
is_transient(msg) == \E k \in 1..Len(msg) : msg[k] \in {"429", "504"}

IsTransientOutcome(o) == o.kind = "error" /\ is_transient(o.msg)

(***************************************************************************)
(* assess_all_symptoms_batch (llm_model.py 142-199).                       *)
(***************************************************************************)
\* Mutant: the 0-based attempt is taken for the number of the failure.
BatchWaitTime_ZeroBased(a) == a * BackoffSeconds * 1000

\* wait_time = (attempt + 1) * 5, in ms
BatchWaitTime(a) == (a + 1) * BackoffSeconds * 1000

\* Mutant: the last transient failure is re-raised to the caller.
BatchDecision_Raises(o, a) ==
    IF o.kind = "ok" THEN "return"
    ELSE IF is_transient(o.msg)
         THEN IF a < BatchMaxRetries - 1 THEN "sleep" ELSE "raise"
         ELSE "fallback"

\* Mutant: the loop sleeps after its last attempt too.
BatchDecision_SleepsLast(o, a) ==
    IF o.kind = "ok" THEN "return"
    ELSE IF is_transient(o.msg)
         THEN IF a < BatchMaxRetries THEN "sleep" ELSE "fallback"
         ELSE "fallback"

\* Mutant: every error is retried, transient or not.
BatchDecision_RetriesAll(o, a) ==
    IF o.kind = "ok" THEN "return"
    ELSE IF a < BatchMaxRetries - 1 THEN "sleep" ELSE "fallback"

\* Mutant: a transient failure is not retried.
BatchDecision_NoRetry(o, a) ==
    IF o.kind = "ok" THEN "return" ELSE "fallback"

\* What the body of the retry loop does with a completion's outcome:
\* "return" the parsed response, "sleep" and retry, or "fallback".
\* "raise" is an exception leaving the method; except Exception lets none.
BatchDecision(o, a) ==
    IF o.kind = "ok" THEN "return"
    ELSE IF is_transient(o.msg)
         THEN IF a < BatchMaxRetries - 1 THEN "sleep" ELSE "fallback"
         ELSE "fallback"

(***************************************************************************)
(* predict_level (llm_model.py 27-81).                                     *)
(***************************************************************************)
\* self._parse_response(response.text), line 55: BDIAssessmentModel defines
\* no _parse_response, so evaluating the attribute raises AttributeError
\* inside the try block; this is str(e).lower() of it.
_parse_response(text) ==
    Error(<<"'bdiassessmentmodel' object has no attribute '_parse_response'">>)

\* The exception the except clause of predict_level handles for an outcome.
PredictException(o) == IF o.kind = "ok" THEN _parse_response(o.text) ELSE o

PredictWaitTime(a) == (a + 1) * BackoffSeconds * 1000

\* The reasons predict_level returns with level None; the text of the
\* exception is kept as the placeholder {e}.
RateLimitReason  == <<"Rate limit exceeded: ", "{e}">>
ErrorReason      == <<"Error: ", "{e}">>
MaxRetriesReason == <<"Max retries exceeded">>

NoLevel(reason) == [has_level |-> FALSE, level |-> 0, reason |-> reason]

\* Mutant: the loop sleeps after its last attempt too.
PredictDecision_SleepsLast(o, a) ==
    LET e == PredictException(o)
    IN  IF is_transient(e.msg) /\ a < PredictMaxRetries THEN "sleep"
        ELSE "return"

\* "sleep" and retry, or "return" the pair PredictReturn gives.
PredictDecision(o, a) ==
    LET e == PredictException(o)
    IN  IF is_transient(e.msg) /\ a < PredictMaxRetries - 1 THEN "sleep"
        ELSE "return"

PredictReturn(o, a) ==
    LET e == PredictException(o)
    IN  IF is_transient(e.msg) THEN NoLevel(RateLimitReason)
        ELSE NoLevel(ErrorReason)

(***************************************************************************)
(* _assess_all_symptoms_fallback (llm_model.py 201-226).                   *)
(***************************************************************************)
\* results[qid] = {"level": ..., "reason": ..., "symptom": symptom}
FallbackEntry(q, r) ==
    [level   |-> IF r.has_level THEN r.level ELSE 0,
     reason  |-> IF r.reason # <<>> THEN r.reason ELSE UnableToAssess,
     symptom |-> REPHRASED_BDI[q]]

\* Mutant: the delay is not skipped on the last item.
DelayAfter_Always(i) == i < NumSymptoms

\* if i < len(REPHRASED_BDI) - 1: time.sleep(2.5)
DelayAfter(i) == i < NumSymptoms - 1

(***************************************************************************)
(* assess_all_symptoms (llm_model.py 228-246).                             *)
(***************************************************************************)
WithSymptoms(res) ==
    [q \in DOMAIN res |->
        IF q \in QIDS THEN ("symptom" :> REPHRASED_BDI[q]) @@ res[q] ELSE res[q]]

(***************************************************************************)
(* _parse_batch_response as steps: one per line of the response, the last  *)
(* one filling the defaults in and returning.                              *)
(***************************************************************************)
\* _parse_batch_response(text) is called: results = {} (line 93).
ParseCall(text) ==
    /\ p_text' = text
    /\ p_n' = 0
    /\ p_results' = EmptyDict
    /\ p_pc' = "scan"

\* One iteration of "for line in response_text.splitlines()" (lines 95-124).
\* An exception leaving the parser inside a call of the orchestrator is
\* caught at line 175 and, its text naming no 429 or 504, starts the fallback.
ParseLine ==
    /\ UNCHANGED app_vars
    /\ p_pc = "scan"
    /\ p_n < Len(p_text)
    /\ p_n' = p_n + 1
    /\ UNCHANGED p_text
    /\ IF LineRaises(p_text[p_n + 1])
       THEN /\ p_pc' = "raised"
            /\ UNCHANGED p_results
            /\ IF pc = "parsing"
               THEN /\ results' = EmptyDict
                    /\ fb_i' = 0
                    /\ fb_attempt' = 0
                    /\ symptom_requests' = 0
                    /\ requested' = <<>>
                    /\ pc' = "fb_request"
                    /\ UNCHANGED <<attempt, wait_time, ret, outcome, transients,
                                   batch_log, batch_waits, delays, slept>>
               ELSE UNCHANGED orch_vars
       ELSE /\ p_results' = ScanLine(p_results, p_text[p_n + 1])
            /\ UNCHANGED p_pc
            /\ UNCHANGED orch_vars

\* The loop is over: the defaults are filled in and the dict is returned
\* (lines 126-140); in a call of the orchestrator, to line 169.
ParseReturn ==
    /\ UNCHANGED app_vars
    /\ p_pc = "scan"
    /\ p_n = Len(p_text)
    /\ p_results' = FillDefaults(p_results)
    /\ p_pc' = "done"
    /\ UNCHANGED <<p_text, p_n>>
    /\ IF pc = "parsing"
       THEN /\ results' = p_results'
            /\ pc' = "annotate"
            /\ UNCHANGED <<attempt, wait_time, fb_i, fb_attempt, ret, outcome,
                           transients, batch_log, symptom_requests, requested,
                           batch_waits, delays, slept>>
       ELSE UNCHANGED orch_vars

(***************************************************************************)
(* The orchestrator's steps.  A step runs from one blocking call (a        *)
(* completion request, a time.sleep) to the next.                          *)
(***************************************************************************)
OutcomeKind(o) == IF o.kind = "ok" THEN "ok"
                  ELSE IF is_transient(o.msg) THEN "transient" ELSE "other"

\* The service may fail transiently while the bound allows it.
MayAnswer(o) == IsTransientOutcome(o) => transients < MaxTransient

Seen(o) == /\ outcome' = o
           /\ transients' = IF IsTransientOutcome(o) THEN transients + 1
                            ELSE transients

OrchIdle ==
    /\ pc = "off" /\ attempt = 0 /\ wait_time = 0 /\ fb_i = 0 /\ fb_attempt = 0
    /\ results = EmptyDict /\ ret = NoValue /\ outcome = [kind |-> "none"]
    /\ transients = 0 /\ batch_log = <<>> /\ symptom_requests = 0
    /\ requested = <<>> /\ batch_waits = <<>> /\ delays = 0 /\ slept = 0

OrchInit ==
    /\ pc = "idle" /\ attempt = 0 /\ wait_time = 0 /\ fb_i = 0 /\ fb_attempt = 0
    /\ results = EmptyDict /\ ret = NoValue /\ outcome = [kind |-> "none"]
    /\ transients = 0 /\ batch_log = <<>> /\ symptom_requests = 0
    /\ requested = <<>> /\ batch_waits = <<>> /\ delays = 0 /\ slept = 0

\* assess_all_symptoms is called: it calls assess_all_symptoms_batch, which
\* builds the batch prompt and enters its retry loop (lines 239, 153-155).
Call ==
    /\ UNCHANGED app_vars
    /\ pc = "idle"
    /\ pc' = IF 0 < BatchMaxRetries THEN "batch_request" ELSE "fb_request"
    /\ attempt' = 0
    /\ UNCHANGED <<wait_time, fb_i, fb_attempt, results, ret, outcome,
                   transients, batch_log, symptom_requests, requested, batch_waits,
                   delays, slept>>
    /\ UNCHANGED parse_vars

\* _assess_all_symptoms_fallback starts: results = {} and the first symptom.
StartFallback ==
    /\ results' = EmptyDict
    /\ fb_i' = 0
    /\ fb_attempt' = 0
    /\ symptom_requests' = 0
    /\ requested' = <<>>
    /\ pc' = IF 0 < NumSymptoms THEN "fb_request" ELSE "annotate"

\* One batch completion and what the loop body does with it (lines 156-195).
BatchRequest ==
    /\ UNCHANGED app_vars
    /\ pc = "batch_request"
    /\ \E o \in {Ok(t) : t \in BatchResponses}
              \cup {Error(m) : m \in TransientErrors \cup OtherErrors} :
        /\ MayAnswer(o)
        /\ Seen(o)
        /\ batch_log' = Append(batch_log, OutcomeKind(o))
        /\ LET d == BatchDecision(o, attempt)
           IN  CASE d = "return" ->
                      /\ ParseCall(o.text)
                      /\ pc' = "parsing"
                      /\ UNCHANGED <<results, wait_time, fb_i, fb_attempt,
                                     symptom_requests, requested>>
                 [] d = "sleep" ->
                      /\ wait_time' = BatchWaitTime(attempt)
                      /\ pc' = "batch_sleep"
                      /\ UNCHANGED <<results, fb_i, fb_attempt, symptom_requests, requested>>
                      /\ UNCHANGED parse_vars
                 [] d = "fallback" ->
                      /\ StartFallback
                      /\ UNCHANGED wait_time
                      /\ UNCHANGED parse_vars
                 [] OTHER ->
                      /\ pc' = "raised"
                      /\ UNCHANGED <<results, wait_time, fb_i, fb_attempt,
                                     symptom_requests, requested>>
                      /\ UNCHANGED parse_vars
    /\ UNCHANGED <<attempt, ret, batch_waits, delays, slept>>

\* time.sleep(wait_time); continue (lines 183-184): the next iteration of
\* "for attempt in range(max_retries)", or the code after the loop (199).
BatchSleep ==
    /\ UNCHANGED app_vars
    /\ pc = "batch_sleep"
    /\ slept' = wait_time
    /\ batch_waits' = Append(batch_waits, wait_time)
    /\ attempt' = attempt + 1
    /\ IF attempt + 1 < BatchMaxRetries
       THEN /\ pc' = "batch_request"
            /\ UNCHANGED <<results, fb_i, fb_attempt, symptom_requests, requested>>
       ELSE StartFallback
    /\ UNCHANGED <<wait_time, ret, outcome, transients, batch_log, delays>>
    /\ UNCHANGED parse_vars

\* The fallback's loop goes on: the next symptom, or "return results" (226)
\* through assess_all_symptoms_batch to line 239.
NextSymptom ==
    IF fb_i + 1 < NumSymptoms
    THEN /\ fb_i' = fb_i + 1
         /\ fb_attempt' = 0
         /\ pc' = "fb_request"
    ELSE /\ pc' = "annotate"
         /\ UNCHANGED <<fb_i, fb_attempt>>

\* predict_level has returned r for the symptom fb_i (lines 215-224).
Record(r) ==
    LET q == qid(fb_i + 1)
    IN  /\ results' = (q :> FallbackEntry(q, r)) @@ results
        /\ IF DelayAfter(fb_i)
           THEN /\ pc' = "fb_delay"
                /\ UNCHANGED <<fb_i, fb_attempt>>
           ELSE NextSymptom

\* One completion for the symptom fb_i and what predict_level does with it.
SymptomRequest ==
    /\ UNCHANGED app_vars
    /\ pc = "fb_request"
    /\ \E o \in {Ok(t) : t \in SymptomResponses}
              \cup {Error(m) : m \in TransientErrors \cup OtherErrors} :
        /\ MayAnswer(o)
        /\ Seen(o)
        /\ symptom_requests' = IF fb_attempt = 0 THEN 1 ELSE symptom_requests + 1
        /\ requested' = IF fb_attempt = 0 THEN Append(requested, qid(fb_i + 1))
                        ELSE requested
        /\ IF PredictDecision(o, fb_attempt) = "sleep"
           THEN /\ wait_time' = PredictWaitTime(fb_attempt)
                /\ pc' = "fb_sleep"
                /\ UNCHANGED <<results, fb_i, fb_attempt>>
           ELSE /\ Record(PredictReturn(o, fb_attempt))
                /\ UNCHANGED wait_time
    /\ UNCHANGED <<attempt, ret, batch_log, batch_waits, delays, slept>>
    /\ UNCHANGED parse_vars

\* time.sleep(wait_time); continue (lines 71-72): the next iteration of
\* "for attempt in range(max_retries)", or the return after the loop (81).
SymptomSleep ==
    /\ UNCHANGED app_vars
    /\ pc = "fb_sleep"
    /\ slept' = wait_time
    /\ IF fb_attempt + 1 < PredictMaxRetries
       THEN /\ fb_attempt' = fb_attempt + 1
            /\ pc' = "fb_request"
            /\ UNCHANGED <<results, fb_i>>
       ELSE Record(NoLevel(MaxRetriesReason))
    /\ UNCHANGED <<attempt, wait_time, ret, outcome, transients, batch_log,
                   symptom_requests, requested, batch_waits, delays>>
    /\ UNCHANGED parse_vars

\* time.sleep(2.5) after a symptom (line 224), then the loop goes on.
SymptomDelay ==
    /\ UNCHANGED app_vars
    /\ pc = "fb_delay"
    /\ slept' = FallbackDelayMs
    /\ delays' = delays + 1
    /\ NextSymptom
    /\ UNCHANGED <<attempt, wait_time, results, ret, outcome, transients,
                   batch_log, symptom_requests, requested, batch_waits>>
    /\ UNCHANGED parse_vars

\* assess_all_symptoms adds the symptom descriptions and returns (242-246).
Return ==
    /\ UNCHANGED app_vars
    /\ pc = "annotate"
    /\ ret' = WithSymptoms(results)
    /\ pc' = "returned"
    /\ UNCHANGED <<attempt, wait_time, fb_i, fb_attempt, results, outcome,
                   transients, batch_log, symptom_requests, requested, batch_waits,
                   delays, slept>>
    /\ UNCHANGED parse_vars

ParseIdle == p_pc = "off" /\ p_text = <<>> /\ p_n = 0 /\ p_results = EmptyDict

\* No assessment is being scored and no dashboard is being rendered.
ScoreIdle ==
    /\ s_pc = "off" /\ assessment_results = EmptyDict
    /\ total_score = NoValue /\ category = NoValue

DashIdle ==
    /\ d_pc = "off" /\ now = 0 /\ stored = <<>> /\ entry_df = NoValue
    /\ session_df = NoValue /\ req = NoValue /\ analysis = NoValue

EntryIds == 1..MaxStored
Renderings == 1..MaxRenderings

\* A rendering that is not running: its local variables are unset.
IdlePage == [pc |-> "idle", entries |-> <<>>, results |-> "none", rows |-> 0]

\* No entry is stored and no journal page is being rendered.
JournalIdle ==
    /\ journal_entries = [id \in EntryIds |-> NoValue]
    /\ bdi_assessments = <<>>
    /\ page = [r \in Renderings |-> IdlePage]
    /\ handled = [id \in EntryIds |-> "none"]
    /\ steps = {} /\ submitted = 0 /\ faults = 0

Init == OrchInit /\ ParseIdle /\ ScoreIdle /\ DashIdle /\ JournalIdle

Next == Call \/ BatchRequest \/ ParseLine \/ ParseReturn \/ BatchSleep
        \/ SymptomRequest \/ SymptomSleep \/ SymptomDelay \/ Return

Spec == Init /\ [][Next]_vars

\* The call runs in one thread and every completion request and every
\* sleep returns: a step that can be taken is taken.
SpecLive == Init /\ [][Next]_vars /\ WF_vars(Next)

(***************************************************************************)
(* _parse_batch_response on its own: every response of at most MaxLines    *)
(* lines over ParseLines.                                                  *)
(***************************************************************************)
ParseLines ==
    { Line(level_key(1), <<" ", "2">>),
      Line(level_key(1), <<" ", "3", " ">>),
      Line(level_key(1), <<" ", "7">>),
      Line(level_key(1), <<" ", "-", "1">>),
      Line(level_key(1), <<" ", "high">>),
      Line(level_key(NumSymptoms), <<"1">>),
      Line(reason_key(1), <<" ", "often", " ", "sad">>),
      Line(reason_key(1), <<" ", "tired", " ">>),
      Line(reason_key(1), <<>>),
      Line(reason_key(NumSymptoms), <<" ", "no", " ", "evidence">>),
      Line("**Q1_LEVEL:", <<"**", " ", "2">>),
      Line("", <<>>) }

ParseTexts == UNION { [1..n -> ParseLines] : n \in 0..MaxLines }

ParseInit ==
    /\ JournalIdle
    /\ OrchIdle
    /\ ScoreIdle
    /\ DashIdle
    /\ p_text \in ParseTexts
    /\ p_n = 0
    /\ p_results = EmptyDict
    /\ p_pc = "scan"

ParseNext == ParseLine \/ ParseReturn

SpecParse == ParseInit /\ [][ParseNext]_vars

(***************************************************************************)
(* Numbers.  A score is a Python int or float; it is kept as the fraction  *)
(* num/den, and float("nan") as the fraction with den = 0, which compares  *)
(* False with everything.                                                  *)
(***************************************************************************)
Whole(n) == [num |-> n, den |-> 1]
Frac(n, d) == [num |-> n, den |-> d]
NaN == [num |-> 0, den |-> 0]
isna(x) == x.den = 0

Lt(x, y) == ~isna(x) /\ ~isna(y) /\ x.num * y.den < y.num * x.den
Le(x, y) == ~isna(x) /\ ~isna(y) /\ x.num * y.den <= y.num * x.den
Plus(x, y) == IF isna(x) \/ isna(y) THEN NaN
              ELSE Frac(x.num * y.den + y.num * x.den, x.den * y.den)

RECURSIVE SeqSum(_)
SeqSum(seq) == IF seq = <<>> THEN 0 ELSE Head(seq) + SeqSum(Tail(seq))

SetMin(S) == CHOOSE x \in S : \A y \in S : x <= y
SetMax(S) == CHOOSE x \in S : \A y \in S : y <= x

(***************************************************************************)
(* backend/utils/score_bdi.py and Config.CATEGORIES (config.py 43-48).     *)
(***************************************************************************)
Band(name, lo, hi) == [name |-> name, min_score |-> lo, max_score |-> hi]

\* Mutant: the Mild band ends one short of the Moderate band.
CATEGORIES_Gap ==
    << Band("Minimal", 0, 9), Band("Mild", 10, 17),
       Band("Moderate", 19, 29), Band("Severe", 30, 63) >>

\* Config.CATEGORIES, in its insertion order.
CATEGORIES ==
    << Band("Minimal", 0, 9), Band("Mild", 10, 18),
       Band("Moderate", 19, 29), Band("Severe", 30, 63) >>

\* An item of assessment_results is a dict (with or without 'level') or,
\* as [raw |-> v, none |-> b], another value: the number v, or None.
IsDictItem(data) == "raw" \notin DOMAIN data

\* The level calculate_total_score reads from one item (lines 27-30).
ItemLevel(data) ==
    IF IsDictItem(data)
    THEN IF "level" \in DOMAIN data THEN data.level ELSE 0
    ELSE IF ~data.none THEN data.raw ELSE 0

RECURSIVE SumItems(_, _)
SumItems(res, keys) ==
    IF keys = {} THEN 0
    ELSE LET q == CHOOSE k \in keys : TRUE
         IN  ItemLevel(res[q]) + SumItems(res, keys \ {q})

\* calculate_total_score (lines 15-33).
calculate_total_score(assessment_results_) ==
    LET total == SumItems(assessment_results_, DOMAIN assessment_results_)
    IN  IF total < MAX_TOTAL_SCORE THEN total ELSE MAX_TOTAL_SCORE

\* get_depression_category (lines 36-49): the first band of CATEGORIES that
\* holds the score, 'Unknown' when none does.
get_depression_category(score_) ==
    LET hits == {k \in 1..Len(CATEGORIES) :
                    /\ Le(Whole(CATEGORIES[k].min_score), score_)
                    /\ Le(score_, Whole(CATEGORIES[k].max_score))}
    IN  IF hits = {} THEN "Unknown" ELSE CATEGORIES[SetMin(hits)].name

\* The assessments handed to the scorer: the first k symptoms at level a,
\* the others at level b, every item a dict with its level, a dict without
\* one, a bare number or None.
ItemShapes == {"dict", "no_level", "number", "none"}

ScoreItem(shape, level) ==
    CASE shape = "dict"     -> [level |-> level, reason |-> <<"often", " ", "sad">>]
      [] shape = "no_level" -> [reason |-> UnableToAssess]
      [] shape = "number"   -> [raw |-> level, none |-> FALSE]
      [] OTHER              -> [raw |-> 0, none |-> TRUE]

ScoreMap(k, a, b, shape) ==
    [q \in QIDS |->
        LET i == CHOOSE j \in 1..NumSymptoms : qid(j) = q
        IN  IF i <= k THEN ScoreItem("dict", a) ELSE ScoreItem(shape, b)]

ScoreMaps ==
    { ScoreMap(k, a, b, shape) :
        k \in 0..NumSymptoms, a \in 0..MaxInputLevel, b \in 0..MaxInputLevel,
        shape \in ItemShapes }

\* The scores handed to the categoriser on their own: the averages of
\* total scores (My History.py 474-475), whole and half.
AverageScores ==
    { Frac(n, d) : n \in (0 - 2 * ScoreMargin)..(2 * (MAX_TOTAL_SCORE + ScoreMargin)),
                   d \in {1, 2} }

\* total_score = calculate_total_score(assessment_results);
\* category = get_depression_category(total_score)   (My History.py 312-313)
ScoreAssessment ==
    /\ s_pc = "input"
    /\ total_score' = calculate_total_score(assessment_results)
    /\ category' = get_depression_category(Whole(total_score'))
    /\ s_pc' = "scored"
    /\ UNCHANGED assessment_results
    /\ UNCHANGED <<engine_vars, dash_vars, journal_vars>>

\* avg_category = get_depression_category(avg_score)  (My History.py 475)
CategoriseAverage ==
    /\ s_pc = "average"
    /\ category' = get_depression_category(total_score)
    /\ s_pc' = "averaged"
    /\ UNCHANGED <<assessment_results, total_score>>
    /\ UNCHANGED <<engine_vars, dash_vars, journal_vars>>

ScoreInit ==
    /\ JournalIdle
    /\ OrchIdle /\ ParseIdle /\ DashIdle
    /\ category = NoValue
    /\ \/ /\ s_pc = "input"
          /\ assessment_results \in ScoreMaps
          /\ total_score = NoValue
       \/ /\ s_pc = "average"
          /\ assessment_results = EmptyDict
          /\ total_score \in AverageScores

ScoreNext == ScoreAssessment \/ CategoriseAverage

SpecScore == ScoreInit /\ [][ScoreNext]_vars

(***************************************************************************)
(* Time.  A timestamp is a number of hours; pandas' NaT is the timestamp   *)
(* with nat = TRUE.  An upload's identifier is the sequence of its tokens, *)
(* the 15 characters of a strftime('%Y%m%d_%H%M%S') being one token; None  *)
(* and the empty string are both the empty sequence.                       *)
(***************************************************************************)
HoursPerDay == 24

At(n) == [t |-> n, nat |-> FALSE]
NaT == [t |-> 0, nat |-> TRUE]
isnat(dt) == dt.nat
date(dt) == dt.t \div HoursPerDay

\* The hours a timestamp of the model may be.
Hours == 0..(LastDay * HoursPerDay)

\* datetime.strftime('%Y%m%d_%H%M%S') and datetime.strptime of it.
strftime(n) == "T" \o ToString(n)
IsStamp(token) == \E n \in Hours : strftime(n) = token
strptime(token) == CHOOSE n \in Hours : strftime(n) = token

\* f"{uploaded_file.name}_{datetime.now().strftime('%Y%m%d_%H%M%S')}"
\* (Journal.py 264, 628)
uploaded_file_name(name, at) == name \o <<"_", strftime(at)>>

NoFile == <<>>

\* str(None), the session_id of a row without entry_id; like an upload's
\* identifier, an id is a sequence of tokens.
NoId == <<"None">>

(***************************************************************************)
(* pages/Personal_Dashboard.py: the session aggregation.                   *)
(***************************************************************************)
SentimentLabels == {"Positive", "Neutral", "Negative"}

\* The labels in the order pandas' mode() returns them (sorted).
SortedLabels == <<"Negative", "Neutral", "Positive">>

Count(seq, v) == Cardinality({k \in 1..Len(seq) : seq[k] = v})

\* values.dropna().mode(): the most frequent values, sorted.
mode(values) ==
    LET top == SetMax({Count(values, v) : v \in SentimentLabels})
    IN  IF values = <<>> THEN <<>>
        ELSE SelectSeq(SortedLabels, LAMBDA v : Count(values, v) = top)

\* _safe_mode (lines 74-83).
_safe_mode(values, default) ==
    LET m == mode(values)
    IN  IF m = <<>> THEN default
        ELSE IF Len(m) > 1 /\ \E k \in 1..Len(m) : m[k] = default THEN default
        ELSE m[1]

\* Personal_Dashboard._label_severity (lines 105-114).
page_label_severity(score_) ==
    IF isna(score_) THEN "Doing great"
    ELSE IF Lt(score_, Whole(10)) THEN "Doing great"
    ELSE IF Lt(score_, Whole(19)) THEN "Hazy"
    ELSE IF Lt(score_, Whole(30)) THEN "Foggy"
    ELSE "Dense Fog"

\* Mutant: the time in the identifier is never used.
_parse_uploaded_file_timestamp_None(uploaded_file) == NaT

\* _parse_uploaded_file_timestamp (lines 128-135); NaT stands for None.
_parse_uploaded_file_timestamp(uploaded_file) ==
    IF ~\E k \in 1..Len(uploaded_file) : uploaded_file[k] = "_" THEN NaT
    ELSE LET ts == uploaded_file[Len(uploaded_file)]
         IN  IF IsStamp(ts) THEN At(strptime(ts)) ELSE NaT

\* _extract_symptom_scores (lines 138-158): the levels within 0..3.
_extract_symptom_scores(assessment_data) ==
    LET keys == {k \in DOMAIN assessment_data :
                    /\ "level" \in DOMAIN assessment_data[k]
                    /\ assessment_data[k].level \in 0..3}
    IN  [k \in keys |-> assessment_data[k].level]

\* The mean of a sequence of integers; NaN when it is empty.
Mean(seq) == IF seq = <<>> THEN NaN ELSE Frac(SeqSum(seq), Len(seq))

\* A data frame is its set of columns and the sequence of its rows; a
\* cell of a column the frame has not is not read.
Frame(columns, rows) == [columns |-> columns, rows |-> rows]
EmptyFrame == Frame({}, <<>>)

\* Mutant: entry_type is overwritten even when the frame has the column.
WithDefaultColumns_AllTyped(df) ==
    Frame(df.columns \cup {"entry_type", "uploaded_file", "entry_id"},
          [k \in 1..Len(df.rows) |->
              [df.rows[k] EXCEPT
                 !.entry_type = "by_typing",
                 !.entry_id = IF "entry_id" \in df.columns THEN @
                              ELSE NoId]])

\* work[...] = default for the columns the frame lacks (lines 167-172).
WithDefaultColumns(df) ==
    Frame(df.columns \cup {"entry_type", "uploaded_file", "entry_id"},
          [k \in 1..Len(df.rows) |->
              [df.rows[k] EXCEPT
                 !.entry_type = IF "entry_type" \in df.columns THEN @
                                ELSE "by_typing",
                 !.uploaded_file = IF "uploaded_file" \in df.columns THEN @
                                   ELSE NoFile,
                 !.entry_id = IF "entry_id" \in df.columns THEN @
                              ELSE NoId]])

\* dropna(subset=["datetime"])
DropNaT(rows) == SelectSeq(rows, LAMBDA r : ~isnat(r.datetime))

\* sort_values("datetime"): ties keep their order.
RECURSIVE InsertByDatetime(_, _)
InsertByDatetime(sorted, r) ==
    IF sorted = <<>> THEN <<r>>
    ELSE IF sorted[Len(sorted)].datetime.t <= r.datetime.t
         THEN Append(sorted, r)
         ELSE Append(InsertByDatetime(SubSeq(sorted, 1, Len(sorted) - 1), r),
                     sorted[Len(sorted)])

RECURSIVE SortByDatetime(_)
SortByDatetime(rows) ==
    IF rows = <<>> THEN <<>>
    ELSE InsertByDatetime(SortByDatetime(SubSeq(rows, 1, Len(rows) - 1)),
                          rows[Len(rows)])

\* The identifiers of the uploads, in the order of their strings.
Names == << <<"chat.txt">>, <<"my", "_", "chat.txt">> >>

\* The row of typed for one row of work (lines 180-182).
TypedSession(r) ==
    [entry_id        |-> r.entry_id,
     entry_type      |-> r.entry_type,
     uploaded_file   |-> r.uploaded_file,
     datetime        |-> r.datetime,
     bdi_total_score |-> Whole(r.bdi_total_score),
     bdi_severity    |-> r.bdi_severity,
     assessment_data |-> r.assessment_data,
     sentiment_label |-> r.sentiment_label,
     session_type    |-> "typed",
     session_id      |-> r.entry_id]

\* The per-symptom averages over the rows of a group (lines 214-226).
AverageSymptoms(g) ==
    LET scores == [k \in 1..Len(g) |-> _extract_symptom_scores(g[k].assessment_data)]
        keys   == UNION {DOMAIN scores[k] : k \in 1..Len(g)}
    IN  [q \in keys |->
            LET having == SelectSeq(scores, LAMBDA sc : q \in DOMAIN sc)
            IN  [raw |-> Mean([k \in 1..Len(having) |-> having[k][q]])]]

\* The timestamp of the session of a group (lines 193-200): the one in the
\* identifier, else the latest of the group.
SessionDatetime(file_key, g) ==
    LET session_dt == _parse_uploaded_file_timestamp(file_key)
    IN  IF ~isnat(session_dt) THEN session_dt
        ELSE At(SetMax({g[k].datetime.t : k \in 1..Len(g)}))

\* The row appended to upload_rows for one group (lines 205-242).
UploadSession(file_key, g) ==
    LET avg_bdi == Mean([k \in 1..Len(g) |-> g[k].bdi_total_score])
        sent == _safe_mode([k \in 1..Len(g) |-> g[k].sentiment_label], "Neutral")
    IN  [entry_id        |-> NoId,
         entry_type      |-> "by_upload",
         uploaded_file   |-> file_key,
         datetime        |-> SessionDatetime(file_key, g),
         bdi_total_score |-> avg_bdi,
         bdi_severity    |-> page_label_severity(avg_bdi),
         assessment_data |-> AverageSymptoms(g),
         sentiment_label |-> IF sent \in SentimentLabels THEN sent ELSE "Neutral",
         session_type    |-> "upload",
         session_id      |-> file_key]

\* The keys of uploads.groupby("uploaded_file", dropna=True), sorted.
RECURSIVE GroupKeys(_, _)
GroupKeys(uploads, known) ==
    IF known = <<>> THEN <<>>
    ELSE LET rest == GroupKeys(uploads, Tail(known))
         IN  IF \E k \in 1..Len(uploads) : uploads[k].uploaded_file = Head(known)
             THEN <<Head(known)>> \o rest ELSE rest

\* _build_session_df (lines 161-248), given the identifiers in sorted order.
_build_session_df(df, known) ==
    IF df.rows = <<>> THEN EmptyFrame
    ELSE
    LET work    == DropNaT(WithDefaultColumns(df).rows)
        typed   == SelectSeq(work, LAMBDA r : r.entry_type # "by_upload")
        uploads == SelectSeq(work, LAMBDA r : r.entry_type = "by_upload")
        keys    == SelectSeq(GroupKeys(uploads, known), LAMBDA f : f # NoFile)
        upload_rows ==
            [k \in 1..Len(keys) |->
                UploadSession(keys[k],
                    SelectSeq(uploads, LAMBDA r : r.uploaded_file = keys[k]))]
        sessions == [k \in 1..Len(typed) |-> TypedSession(typed[k])] \o upload_rows
    IN  IF work = <<>> THEN EmptyFrame
        ELSE Frame({"entry_id", "entry_type", "uploaded_file", "datetime",
                    "bdi_total_score", "bdi_severity", "assessment_data",
                    "sentiment_label", "session_type", "session_id"},
                   SortByDatetime(DropNaT(sessions)))

\* depression_detection._label_severity (lines 149-165).
_label_severity(score_) ==
    IF isna(score_) THEN "Minimal"
    ELSE IF Lt(score_, Whole(10)) THEN "Minimal"
    ELSE IF Lt(score_, Whole(19)) THEN "Mild"
    ELSE IF Lt(score_, Whole(30)) THEN "Moderate"
    ELSE "Severe"

(***************************************************************************)
(* _build_session_df on its own: every entry frame of at most MaxEntries   *)
(* rows taken from EntryRows, with and without the columns entry_type,     *)
(* uploaded_file and entry_id.                                             *)
(***************************************************************************)
\* Two uploads, processed on day 40 at 09:00 and on day 41 at 00:00; their
\* messages are dated before.
UploadA == uploaded_file_name(Names[1], 40 * HoursPerDay + 9)
UploadB == uploaded_file_name(Names[2], 41 * HoursPerDay)
KnownFiles == <<UploadA, UploadB>>

Levels(l1, l9) == (qid(1) :> [level |-> l1]) @@ (qid(9) :> [level |-> l9])

EntryRow(entry_type, uploaded_file, dt, bdi_total_score, sentiment_label,
         assessment_data) ==
    [entry_id        |-> NoId,
     entry_type      |-> entry_type,
     uploaded_file   |-> uploaded_file,
     datetime        |-> dt,
     bdi_total_score |-> bdi_total_score,
     bdi_severity    |-> _label_severity(Whole(bdi_total_score)),
     assessment_data |-> assessment_data,
     sentiment_label |-> sentiment_label]

EntryRows ==
    { EntryRow("by_typing", NoFile, At(10 * HoursPerDay + 8), 5, "Positive",
               Levels(1, 0)),
      EntryRow("by_typing", NoFile, NaT, 12, "Negative", Levels(2, 1)),
      EntryRow("by_upload", UploadA, At(3 * HoursPerDay), 12, "Positive",
               Levels(2, 0)),
      EntryRow("by_upload", UploadA, At(5 * HoursPerDay + 7), 21, "Negative",
               Levels(3, 2)),
      EntryRow("by_upload", UploadA, At(9 * HoursPerDay), 4, "Neutral",
               Levels(0, 0)),
      EntryRow("by_upload", UploadA, NaT, 63, "Negative", Levels(3, 3)),
      EntryRow("by_upload", UploadB, At(3 * HoursPerDay), 30, "Negative",
               Levels(3, 1)),
      EntryRow("by_upload", UploadB, At(12 * HoursPerDay), 9, "Positive",
               Levels(1, 1)) }

\* entry_id: the key of the row in journal_entries.
WithEntryIds(rows) ==
    [k \in 1..Len(rows) |-> [rows[k] EXCEPT !.entry_id = <<"e" \o ToString(k)>>]]

BaseColumns == {"datetime", "bdi_total_score", "bdi_severity",
                "assessment_data", "sentiment_label"}
EntryColumns == {"entry_id", "entry_type", "uploaded_file"}

EntryFrames ==
    { Frame(BaseColumns \cup extra, WithEntryIds(rows)) :
        extra \in {{}, EntryColumns},
        rows \in UNION { [1..n -> EntryRows] : n \in 0..MaxEntries } }

\* session_df = _build_session_df(entry_df); an empty session_df stops the
\* page (lines 392-395).
BuildSessionDf ==
    /\ d_pc = "entries"
    /\ session_df' = _build_session_df(entry_df, KnownFiles)
    /\ d_pc' = IF session_df'.rows = <<>> THEN "stopped" ELSE "sessions"
    /\ UNCHANGED <<now, stored, entry_df, req, analysis>>
    /\ UNCHANGED <<engine_vars, score_vars, journal_vars>>

SessionInit ==
    /\ JournalIdle
    /\ OrchIdle /\ ParseIdle /\ ScoreIdle
    /\ d_pc = "entries"
    /\ now = 0
    /\ stored = <<>>
    /\ entry_df \in EntryFrames
    /\ session_df = NoValue /\ req = NoValue /\ analysis = NoValue

SessionNext == BuildSessionDf

SpecSession == SessionInit /\ [][SessionNext]_vars

(***************************************************************************)
(* utils/depression_detection.py: analyze_depression (lines 180-394).      *)
(***************************************************************************)
\* BDI_SYMPTOM_NAMES (lines 119-141), Q1..Q21.
BDI_SYMPTOM_NAMES ==
    << "Sadness", "Pessimism", "Past Failure", "Loss of Pleasure",
       "Guilty Feelings", "Punishment Feelings", "Self-Dislike",
       "Self Criticalness", "Suicidal Thoughts or Wishes", "Crying",
       "Agitation", "Loss of Interest", "Indecisiveness", "Worthlessness",
       "Loss of Energy", "Changes in Sleeping Pattern", "Irritability",
       "Changes in Appetite", "Concentration Difficulty",
       "Tiredness or Fatigue", "Loss of Interest in Sex" >>

\* _has_streak (lines 168-177): run is the length of the run so far.
RECURSIVE HasRun(_, _, _)
HasRun(values, min_len, run) ==
    IF values = <<>> THEN FALSE
    ELSE LET r == IF Head(values) THEN run + 1 ELSE 0
         IN  IF r >= min_len THEN TRUE ELSE HasRun(Tail(values), min_len, r)

_has_streak(values, min_len) == HasRun(values, min_len, 0)

RECURSIVE SumScore(_)
SumScore(rows) ==
    IF rows = <<>> THEN Whole(0)
    ELSE Plus(rows[1].bdi_total_score, SumScore(Tail(rows)))

\* rows["bdi_total_score"].mean(); the means are exact fractions.
MeanScore(rows) ==
    IF rows = <<>> THEN NaN
    ELSE LET total == SumScore(rows)
         IN  Frac(total.num, total.den * Len(rows))

\* work.tail(n)
TailRows(rows, n) ==
    IF Len(rows) <= n THEN rows ELSE SubSeq(rows, Len(rows) - n + 1, Len(rows))

\* The (name, score) pairs lines 327-346 add up, in the order they do:
\* row after row, the items of a row in the order Q1..Q21.
ItemScore(val) == IF "raw" \in DOMAIN val THEN val.raw ELSE Whole(val.level)

RowContributions(row) ==
    LET assess == row.assessment_data
        present == SelectSeq([i \in 1..NumSymptoms |-> i],
                       LAMBDA i : /\ qid(i) \in DOMAIN assess
                                  /\ Le(Whole(0), ItemScore(assess[qid(i)]))
                                  /\ Le(ItemScore(assess[qid(i)]), Whole(3)))
    IN  [k \in 1..Len(present) |->
            [name |-> BDI_SYMPTOM_NAMES[present[k]],
             score |-> ItemScore(assess[qid(present[k])])]]

RECURSIVE Contributions(_)
Contributions(rows) ==
    IF rows = <<>> THEN <<>>
    ELSE RowContributions(rows[1]) \o Contributions(Tail(rows))

\* The keys of totals, in insertion order.
RECURSIVE FirstAppearances(_, _)
FirstAppearances(contribs, seen) ==
    IF contribs = <<>> THEN <<>>
    ELSE IF contribs[1].name \in seen
         THEN FirstAppearances(Tail(contribs), seen)
         ELSE <<contribs[1].name>>
              \o FirstAppearances(Tail(contribs), seen \cup {contribs[1].name})

RECURSIVE SumOf(_, _)
SumOf(contribs, name) ==
    IF contribs = <<>> THEN Whole(0)
    ELSE IF contribs[1].name = name
         THEN Plus(contribs[1].score, SumOf(Tail(contribs), name))
         ELSE SumOf(Tail(contribs), name)

\* avgs[k] = totals[k] / counts[k]
SymptomAverage(contribs, name) ==
    LET total == SumOf(contribs, name)
        count == Len(SelectSeq(contribs, LAMBDA c : c.name = name))
    IN  Frac(total.num, total.den * count)

\* sorted(avgs.items(), key=lambda kv: kv[1], reverse=True): stable.
RECURSIVE InsertByAverage(_, _, _)
InsertByAverage(sorted, name, contribs) ==
    IF sorted = <<>> THEN <<name>>
    ELSE IF Le(SymptomAverage(contribs, name),
               SymptomAverage(contribs, sorted[Len(sorted)]))
         THEN Append(sorted, name)
         ELSE Append(InsertByAverage(SubSeq(sorted, 1, Len(sorted) - 1),
                                     name, contribs),
                     sorted[Len(sorted)])

RECURSIVE SortByAverage(_, _)
SortByAverage(names, contribs) ==
    IF names = <<>> THEN <<>>
    ELSE InsertByAverage(
             SortByAverage(SubSeq(names, 1, Len(names) - 1), contribs),
             names[Len(names)], contribs)

\* Mutant: every symptom is listed.
top_symptoms_Untruncated(recent) ==
    LET contribs == Contributions(recent)
    IN  SortByAverage(FirstAppearances(contribs, {}), contribs)

\* top_symptoms (lines 323-354).
top_symptoms(recent) ==
    LET contribs == Contributions(recent)
        ranked == SortByAverage(FirstAppearances(contribs, {}), contribs)
    IN  IF Len(ranked) <= TopSymptoms THEN ranked
        ELSE SubSeq(ranked, 1, TopSymptoms)

\* The dict returned for no usable entry (lines 221-231, 245-255).
NoEntriesAnalysis ==
    [depression_detected |-> FALSE,
     overall_severity    |-> "Minimal",
     trend_direction     |-> "Stable",
     confidence_level    |-> "Low",
     entries_used        |-> 0,
     time_span_days      |-> 0,
     top_symptoms        |-> <<>>,
     explanation         |-> "Not enough entries yet"]

\* work: the rows with a timestamp and a score, sorted (lines 240-243).
WorkRows(df) ==
    SortByDatetime(SelectSeq(df.rows,
        LAMBDA r : ~isnat(r.datetime) /\ ~isna(r.bdi_total_score)))

\* recent: the rows within window_days of the latest (lines 262-264).
RecentRows(work, window_days) ==
    LET latest_dt == SetMax({work[k].datetime.t : k \in 1..Len(work)})
        cutoff == latest_dt - window_days * HoursPerDay
    IN  SelectSeq(work, LAMBDA r : r.datetime.t >= cutoff)

\* Mutant: the minimum-data rule is left out of the detection.
Detected_NoGate(work, recent) ==
    LET flags == [k \in 1..Len(recent) |->
                    Le(Whole(BDI_MILD_THRESHOLD), recent[k].bdi_total_score)]
        hits == Cardinality({k \in 1..Len(flags) : flags[k]})
    IN  /\ Len(recent) > 0
        /\ 2 * hits >= Len(flags) \/ _has_streak(flags, STREAK_MIN)

\* Mutant: both rules are required.
Detected_BothRules(work, recent) ==
    LET flags == [k \in 1..Len(recent) |->
                    Le(Whole(BDI_MILD_THRESHOLD), recent[k].bdi_total_score)]
        hits == Cardinality({k \in 1..Len(flags) : flags[k]})
    IN  /\ Len(work) >= MIN_ENTRIES_FOR_DETECTION
        /\ Len(recent) > 0
        /\ 2 * hits >= Len(flags) /\ _has_streak(flags, STREAK_MIN)

\* depression_detected (lines 276-292): np.mean(flags) >= 0.5 is
\* 2 * hits >= len(flags).
Detected(work, recent) ==
    LET flags == [k \in 1..Len(recent) |->
                    Le(Whole(BDI_MILD_THRESHOLD), recent[k].bdi_total_score)]
        hits == Cardinality({k \in 1..Len(flags) : flags[k]})
    IN  /\ Len(work) >= MIN_ENTRIES_FOR_DETECTION
        /\ Len(recent) > 0
        /\ 2 * hits >= Len(flags) \/ _has_streak(flags, STREAK_MIN)

\* Mutant: the severity is taken from the recent window.
SeverityRows_Window(work, recent) == TailRows(recent, SeverityEntries)

\* The rows overall_severity is the mean of (line 297).
SeverityRows(work, recent) == TailRows(work, SeverityEntries)

\* Mutant: the tolerance is included in Stable's complement.
Trend_NoTolerance(work) ==
    LET n == Len(work)
        mid == n \div 2
        early_avg == MeanScore(SubSeq(work, 1, mid))
        recent_avg == MeanScore(SubSeq(work, mid + 1, n))
    IN  IF n < TrendMinEntries THEN "Stable"
        ELSE IF Lt(recent_avg, early_avg) THEN "Improving"
        ELSE IF Lt(early_avg, recent_avg) THEN "Worsening"
        ELSE "Stable"

\* trend_direction (lines 304-318); tol = 0.5.
Trend(work) ==
    LET n == Len(work)
        mid == n \div 2
        early_avg == MeanScore(SubSeq(work, 1, mid))
        recent_avg == MeanScore(SubSeq(work, mid + 1, n))
        tol == Frac(1, 2)
    IN  IF n < TrendMinEntries THEN "Stable"
        ELSE IF Lt(Plus(recent_avg, tol), early_avg) THEN "Improving"
        ELSE IF Lt(Plus(early_avg, tol), recent_avg) THEN "Worsening"
        ELSE "Stable"

\* confidence (lines 359-364).
Confidence(total_entries_overall) ==
    IF total_entries_overall < MIN_ENTRIES_FOR_DETECTION THEN "Low"
    ELSE IF total_entries_overall < HighConfidenceEntries THEN "Medium"
    ELSE "High"

\* analyze_depression (lines 180-394) of a frame with the columns datetime
\* and bdi_total_score.
analyze_depression(df, window_days) ==
    LET work == WorkRows(df)
        recent == RecentRows(work, window_days)
        depression_detected == Detected(work, recent)
    IN  IF df.rows = <<>> \/ work = <<>> THEN NoEntriesAnalysis
        ELSE
        [depression_detected |-> depression_detected,
         overall_severity    |-> _label_severity(MeanScore(SeverityRows(work, recent))),
         trend_direction     |-> Trend(work),
         confidence_level    |-> Confidence(Len(work)),
         entries_used        |-> Len(recent),
         time_span_days      |->
             (SetMax({recent[k].datetime.t : k \in 1..Len(recent)})
                - SetMin({recent[k].datetime.t : k \in 1..Len(recent)}))
               \div HoursPerDay,
         top_symptoms        |-> top_symptoms(recent),
         explanation         |->
             IF Len(work) < MIN_ENTRIES_FOR_DETECTION THEN "limited number of entries"
             ELSE IF depression_detected THEN "consistent low mood"
             ELSE "no consistent pattern"]

\* analysis_30 = analyze_depression(session_df, window_days=30)
\* (Personal_Dashboard.py 403)
AnalyzeDepression ==
    /\ d_pc = "gated"
    /\ analysis' = analyze_depression(session_df, WINDOW_DAYS)
    /\ d_pc' = "analysed"
    /\ UNCHANGED <<now, stored, entry_df, session_df, req>>
    /\ UNCHANGED <<engine_vars, score_vars, journal_vars>>

(***************************************************************************)
(* analyze_depression on its own: histories of at most MaxSessions         *)
(* sessions, one a day or one every 6 days up to day 80, with scores       *)
(* around the threshold (9 or 10, in every arrangement) or in an           *)
(* arithmetic progression, and histories with a pause of weeks.            *)
(***************************************************************************)
SessionRow(t, score_) ==
    TypedSession(EntryRow("by_typing", NoFile, At(t), score_, "Neutral",
                          Levels(IF score_ >= 10 THEN 2 ELSE 0, 1)))

\* The days between two sessions of a history.
Spacings == {1, 6}

SessionTime(spacing, n, i) == (80 - spacing * (n - i)) * HoursPerDay + 12

History(spacing, scores) ==
    [i \in 1..Len(scores) |->
        SessionRow(SessionTime(spacing, Len(scores), i), scores[i])]

Reverse(seq) == [i \in 1..Len(seq) |-> seq[Len(seq) + 1 - i]]

\* A row without a timestamp, which the analysis drops.
UndatedRow == TypedSession(EntryRow("by_typing", NoFile, NaT, 63, "Negative",
                                    Levels(3, 3)))

ThresholdHistories ==
    { History(spacing, scores) :
        spacing \in Spacings,
        scores \in UNION { [1..n -> {9, 10}] : n \in 0..MaxSessions } }

Progression(n, start, step) == [i \in 1..n |-> start + step * (i - 1)]

\* The progressions whose scores all lie in 0..63.
Progressions ==
    { p \in { Progression(n, start, step) :
                n \in 0..MaxSessions,
                start \in {0, 9, 10, 19, 30, 63},
                step \in {-5, -1, 0, 1, 5} } :
        \A i \in 1..Len(p) : p[i] \in 0..MAX_TOTAL_SCORE }

ProgressionHistories ==
    { IF undated THEN <<UndatedRow>> \o rows ELSE rows :
        undated \in BOOLEAN,
        rows \in
          { IF reversed THEN Reverse(History(spacing, scores))
            ELSE History(spacing, scores) :
              reversed \in BOOLEAN,
              spacing \in Spacings,
              scores \in Progressions } }

\* Histories with a pause: earlier sessions a day apart from day 21 on, all
\* with the same score, and one or two sessions on days 79 and 80.
LapsedHistories ==
    { [i \in 1..n |->
          IF i <= n - Len(recent_scores)
          THEN SessionRow((20 + i) * HoursPerDay + 12, earlier_score)
          ELSE SessionRow((80 - (n - i)) * HoursPerDay + 12,
                          recent_scores[i - (n - Len(recent_scores))])] :
        n \in 2..MaxSessions,
        earlier_score \in {0, 9, 10, 63},
        recent_scores \in UNION { [1..m -> {9, 10}] : m \in 1..2 } }

SessionColumns == BaseColumns \cup EntryColumns \cup {"session_type", "session_id"}

SessionFrames ==
    { Frame(SessionColumns, rows) :
        rows \in ThresholdHistories \cup ProgressionHistories
                   \cup LapsedHistories }

AnalyzeInit ==
    /\ JournalIdle
    /\ OrchIdle /\ ParseIdle /\ ScoreIdle
    /\ d_pc = "gated"
    /\ now = 0
    /\ stored = <<>>
    /\ entry_df = NoValue
    /\ session_df \in SessionFrames
    /\ req = NoValue
    /\ analysis = NoValue

AnalyzeNext == AnalyzeDepression

SpecAnalyze == AnalyzeInit /\ [][AnalyzeNext]_vars

(***************************************************************************)
(* analyze_depression on the symptoms: histories of at most                *)
(* MaxSymptomSessions sessions a day apart, the first of them 40 days      *)
(* older or not, each with one of a few assessments of Q1..Q5 (some        *)
(* without a score for a symptom).                                         *)
(***************************************************************************)
NoScore == 0 - 1

\* The levels of Q1..Q5 in a session; NoScore where the session has none.
SymptomProfiles ==
    { <<3, 3, 1, 0, 2>>, <<0, 2, 2, 2, 2>>, <<NoScore, 1, 3, NoScore, 1>>,
      <<1, 1, 1, 1, 1>>, <<NoScore, NoScore, NoScore, NoScore, 3>>,
      <<2, 0, 3, 1, NoScore>> }

ProfileData(profile) ==
    [q \in {qid(i) : i \in {j \in 1..Len(profile) : profile[j] # NoScore}} |->
        [level |-> profile[CHOOSE i \in 1..Len(profile) : qid(i) = q]]]

SymptomRow(t, profile) ==
    TypedSession(EntryRow("by_typing", NoFile, At(t), 12, "Neutral",
                          ProfileData(profile)))

SymptomHistories ==
    { [i \in 1..Len(profiles) |->
          SymptomRow((IF old /\ i = 1 THEN 40 - Len(profiles) + i
                      ELSE 80 - Len(profiles) + i) * HoursPerDay + 12,
                     profiles[i])] :
        old \in BOOLEAN,
        profiles \in UNION { [1..n -> SymptomProfiles] :
                               n \in 0..MaxSymptomSessions } }

SymptomsInit ==
    /\ JournalIdle
    /\ OrchIdle /\ ParseIdle /\ ScoreIdle
    /\ d_pc = "gated"
    /\ now = 0
    /\ stored = <<>>
    /\ entry_df = NoValue
    /\ session_df \in { Frame(SessionColumns, rows) : rows \in SymptomHistories }
    /\ req = NoValue
    /\ analysis = NoValue

SpecSymptoms == SymptomsInit /\ [][AnalyzeNext]_vars

(***************************************************************************)
(* The personal dashboard (Personal_Dashboard.py 383-403): the stored      *)
(* entries are loaded, aggregated to sessions, gated and analysed.         *)
(***************************************************************************)
\* timedelta(days=n), in hours.
Days(n) == n * HoursPerDay

\* The order and the limit of get_recent_entries: newest first (the table
\* holds one row per user, date and time), at most limit rows.
NewestFirst(rows) == Reverse(SortByDatetime(rows))
Limit(rows, limit) == SubSeq(rows, 1, IF Len(rows) < limit THEN Len(rows) ELSE limit)

\* db_client.get_recent_entries(days, limit) (db_client.py 114-164): the
\* rows of journal_entries since the cutoff date; of each row the id, the
\* text and the date and time are kept.
get_recent_entries(db, reference, days, limit) ==
    LET cutoff_date == (reference - Days(days)) \div HoursPerDay
        since == SelectSeq(db,
                    LAMBDA e : date(e.entry_datetime) >= cutoff_date)
        raw_entries == [k \in 1..Len(since) |->
                           [id       |-> since[k].id,
                            datetime |-> since[k].entry_datetime]]
    IN  Limit(NewestFirst(raw_entries), limit)

\* The row of bdi_assessments and of sentiment_analysis of an entry
\* (db_client.py 227-255, 327-351).
EntryOf(db, entry_id) == db[CHOOSE k \in 1..Len(db) : db[k].id = entry_id]
get_assessment_by_entry(db, entry_id) == EntryOf(db, entry_id).assessment
get_sentiment_by_entry(db, entry_id) == EntryOf(db, entry_id).sentiment

\* The severity of a row (lines 442-450); str.title() leaves the category
\* names the backend writes as they are.
RowSeverity(assessment) ==
    IF assessment.category \in {"Minimal", "Mild", "Moderate", "Severe"}
    THEN assessment.category
    ELSE IF assessment.category \in {"No", "None"} THEN "Minimal"
    ELSE _label_severity(Whole(assessment.total_score))

\* The sentiment of a row (lines 453-457).
RowSentiment(sentiment) ==
    IF ~sentiment.none /\ sentiment.top_label \in SentimentLabels
    THEN sentiment.top_label ELSE "Neutral"

\* The row prepare_dashboard_data appends for an entry (lines 459-468); its
\* columns are DashboardColumns, and the three fields below them are no
\* columns of the frame: _build_session_df fills them with its defaults.
DashboardRow(db, entry) ==
    LET assessment == get_assessment_by_entry(db, entry.id)
    IN  [datetime        |-> At(entry.datetime.t),
         bdi_total_score |-> assessment.total_score,
         bdi_severity    |-> RowSeverity(assessment),
         assessment_data |-> assessment.assessment_data,
         sentiment_label |-> RowSentiment(get_sentiment_by_entry(db, entry.id)),
         entry_id        |-> NoId,
         entry_type      |-> "",
         uploaded_file   |-> NoFile]

\* The text column, which nothing on the way to the analysis reads, is left
\* out.
DashboardColumns == BaseColumns

\* prepare_dashboard_data(db_client, window_days) (lines 397-484): None
\* without entries or without an assessed entry.
prepare_dashboard_data(db, reference, window_days) ==
    LET entries == get_recent_entries(db, reference, window_days, EntriesLimit)
        assessed == SelectSeq(entries,
                       LAMBDA e : ~get_assessment_by_entry(db, e.id).none)
        rows == [k \in 1..Len(assessed) |-> DashboardRow(db, assessed[k])]
    IN  IF entries = <<>> \/ rows = <<>> THEN NoValue
        ELSE Frame(DashboardColumns, SortByDatetime(rows))

\* evaluate_recent_data_requirements (lines 33-116) with reference_dt
\* unset: ref = datetime.now().
\* Of its arguments, days is window_days and ref is the reference time.
evaluate_recent_data_requirements(df, days, min_entries, min_distinct_days, ref) ==
    LET work == DropNaT(df.rows)
        cutoff == ref - Days(days)
        recent == SelectSeq(work, LAMBDA r : r.datetime.t >= cutoff)
        recent_entries == Len(recent)
        distinct_days ==
            Cardinality({date(recent[k].datetime) : k \in 1..Len(recent)})
    IN  IF df.rows = <<>> \/ "datetime" \notin df.columns \/ work = <<>>
        THEN [meets |-> FALSE, recent_entries |-> 0, distinct_days |-> 0]
        ELSE [meets |-> /\ recent_entries >= min_entries
                        /\ distinct_days >= min_distinct_days,
              recent_entries |-> recent_entries,
              distinct_days  |-> distinct_days]

\* entry_df = prepare_dashboard_data(db_client, window_days=90); the page
\* stops when it is None or empty (lines 386-390).
LoadEntries ==
    /\ d_pc = "page"
    /\ entry_df' = prepare_dashboard_data(stored, now, DashboardWindowDays)
    /\ d_pc' = IF entry_df' = NoValue THEN "stopped" ELSE "entries"
    /\ UNCHANGED <<now, stored, session_df, req, analysis>>
    /\ UNCHANGED <<engine_vars, score_vars, journal_vars>>

\* req = evaluate_recent_data_requirements(session_df, window_days=30,
\* min_entries=10, min_distinct_days=5); the page stops unless it meets
\* (lines 397-401).
EvaluateRequirements ==
    /\ d_pc = "sessions"
    /\ req' = evaluate_recent_data_requirements(
                 session_df, WINDOW_DAYS, MIN_ENTRIES_FOR_DETECTION,
                 MIN_DISTINCT_DAYS, now)
    /\ d_pc' = IF req'.meets THEN "gated" ELSE "stopped"
    /\ UNCHANGED <<now, stored, entry_df, session_df, analysis>>
    /\ UNCHANGED <<engine_vars, score_vars, journal_vars>>

(***************************************************************************)
(* The page on the journals of one user: an import batch of up to          *)
(* MaxMessages messages dated over 1, 5 or 10 days and uploaded on day 40, *)
(* next to no, one or ten typed entries, read the day after, a month       *)
(* later or a quarter later.                                               *)
(***************************************************************************)
\* A row of journal_entries with its assessment and its sentiment.
StoredEntry(id, t, entry_type, uploaded_file, assessed, total, label) ==
    [id             |-> id,
     entry_datetime |-> At(t),
     entry_type     |-> entry_type,
     uploaded_file  |-> uploaded_file,
     assessment     |-> [none            |-> ~assessed,
                         total_score     |-> total,
                         category        |-> get_depression_category(Whole(total)),
                         assessment_data |-> Levels(IF total >= 10 THEN 2 ELSE 0, 1)],
     sentiment      |-> [none |-> FALSE, top_label |-> label]]

\* Message i of the batch: the messages fall on `span` days from day 30 on,
\* no two at the same time.
BatchMessage(i, span, assessed) ==
    StoredEntry(<<"m" \o ToString(i)>>,
                (30 + ((i - 1) % span)) * HoursPerDay + 1 + ((i - 1) \div span),
                "by_upload", UploadA, assessed,
                IF i % 2 = 0 THEN 21 ELSE 12, "Negative")

\* Typed entry j, on day 31 + j.
TypedEntry(j) ==
    StoredEntry(<<"t" \o ToString(j)>>, (31 + j) * HoursPerDay + 20,
                "by_typing", NoFile, TRUE, 5, "Positive")

StoredJournals ==
    { [j \in 1..typed |-> TypedEntry(typed + 1 - j)]
        \o [i \in 1..messages |->
              BatchMessage(messages + 1 - i, span,
                           ~(pending /\ i = messages))] :
        typed \in {0, 1, 10},
        messages \in 0..MaxMessages,
        span \in {1, 5, 10},
        pending \in BOOLEAN }

ReadingTimes == {42 * HoursPerDay + 10, 75 * HoursPerDay + 10,
                 135 * HoursPerDay + 10}

DashboardInit ==
    /\ JournalIdle
    /\ OrchIdle /\ ParseIdle /\ ScoreIdle
    /\ d_pc = "page"
    /\ now \in ReadingTimes
    /\ stored \in StoredJournals
    /\ entry_df = NoValue /\ session_df = NoValue
    /\ req = NoValue /\ analysis = NoValue

DashboardNext ==
    LoadEntries \/ BuildSessionDf \/ EvaluateRequirements \/ AnalyzeDepression

SpecDashboard == DashboardInit /\ [][DashboardNext]_vars

(***************************************************************************)
(* The journal pages (Journal.py, My History.py): the analysis status of   *)
(* an entry.  A rendering is one run of a page's script; two renderings    *)
(* (two browser sessions of the user) interleave at their database calls.  *)
(* An entry's text is its version: 1 as written, one more after each edit. *)
(***************************************************************************)
Saved(id) == journal_entries[id] # NoValue

FreeIds == {id \in EntryIds : ~Saved(id)}

StatusOf(id) == journal_entries[id].analysis_status

\* DBClient.save_journal_entry: the row is inserted with status 'pending'.
save_journal_entry(id, text, entry_type) ==
    [journal_entries EXCEPT ![id] =
        [entry_text |-> text, entry_type |-> entry_type,
         analysis_status |-> "pending", analysis_error |-> ""]]

\* DBClient.update_journal_entry_status(entry_id, status, error): the
\* entry's status field is set, and its error message with it.
update_journal_entry_status(id, status, error) ==
    [journal_entries EXCEPT ![id].analysis_status = status,
                            ![id].analysis_error = error]

\* The pages' own update of the row: only the status is written.
SetCompleted(id) ==
    [journal_entries EXCEPT ![id].analysis_status = "completed"]

\* DBClient.save_assessment: a plain insert.  The row remembers the text it
\* was computed from.
save_assessment(id, text) ==
    Append(bdi_assessments, [entry_id |-> id, text |-> text])

\* DBClient.get_assessment_by_entry's rows: the assessments of one entry.
AssessmentsOf(id) == SelectSeq(bdi_assessments, LAMBDA a : a.entry_id = id)

\* A failure or an interruption happens: the model allows MaxFaults.
Fault == faults < MaxFaults /\ faults' = faults + 1

NoFault == UNCHANGED faults

Goto(r, label) == page' = [page EXCEPT ![r].pc = label]

Current(r) == Head(page[r].entries)

\* The loop over the entries moves on: to the next entry, or out of the loop.
Advance(r, again, after) ==
    page' = [page EXCEPT ![r].entries = Tail(@),
                         ![r].results = "none",
                         ![r].pc = IF Len(page[r].entries) > 1 THEN again
                                   ELSE after]

\* The pending-entry processor of rendering r took a step on the entry e.
Did(step, r, e) == steps' = steps \cup {<<step, r, e.id, e.text>>}

\* Rows of the uploads under way that are not saved yet: the table of the
\* model keeps room for them.
Unsaved(r) ==
    IF page[r].pc = "u_save" THEN page[r].rows
    ELSE IF page[r].pc = "u_mark" THEN page[r].rows - 1 ELSE 0

RECURSIVE UnsavedUpTo(_)
UnsavedUpTo(n) == IF n = 0 THEN 0 ELSE Unsaved(n) + UnsavedUpTo(n - 1)

Room == Cardinality(FreeIds) - UnsavedUpTo(MaxRenderings)

\* ---- Journal.py, the typed entry (lines 1083-1162)
SubmitTyped(r) ==
    /\ UNCHANGED other_vars
    /\ page[r].pc = "idle" /\ submitted < MaxSubmitted /\ Room > 0
    /\ submitted' = submitted + 1
    /\ LET id == SetMin(FreeIds) IN
       \/ /\ NoFault
          /\ journal_entries' = save_journal_entry(id, 1, "by_typing")
          /\ page' = [page EXCEPT ![r].pc = "t_analyse",
                                  ![r].entries = <<[id |-> id, text |-> 1]>>]
       \/ \* save_journal_entry returned None: "Failed to save entry"
          /\ Fault
          /\ Goto(r, "p_read")
          /\ UNCHANGED journal_entries
    /\ UNCHANGED <<bdi_assessments, handled, steps>>

TypedAnalyse(r) ==
    /\ UNCHANGED other_vars
    /\ page[r].pc = "t_analyse"
    /\ \/ /\ NoFault
          /\ page' = [page EXCEPT ![r].pc = "t_save", ![r].results = "ok"]
          /\ UNCHANGED handled
       \/ \* an exception: printed, assessment_saved = False
          /\ Fault
          /\ handled' = [handled EXCEPT ![Current(r).id] = "raised"]
          /\ page' = [page EXCEPT ![r] = [IdlePage EXCEPT !.pc = "p_read"]]
    /\ UNCHANGED <<journal_entries, bdi_assessments, steps, submitted>>

TypedSave(r) ==
    /\ UNCHANGED other_vars
    /\ page[r].pc = "t_save"
    /\ LET e == Current(r) IN
       \/ /\ NoFault
          /\ bdi_assessments' = save_assessment(e.id, e.text)
          /\ handled' = [handled EXCEPT ![e.id] = "ok"]
       \/ \* save_assessment caught the error and returned None
          /\ Fault
          /\ handled' = [handled EXCEPT ![e.id] = "unsaved"]
          /\ UNCHANGED bdi_assessments
    /\ Goto(r, "t_status")
    /\ UNCHANGED <<journal_entries, steps, submitted>>

TypedComplete(r) ==
    /\ UNCHANGED other_vars
    /\ page[r].pc = "t_status"
    /\ journal_entries' = SetCompleted(Current(r).id)
    /\ page' = [page EXCEPT ![r] = [IdlePage EXCEPT !.pc = "p_read"]]
    /\ UNCHANGED <<bdi_assessments, handled, steps, submitted, faults>>

\* ---- Journal.py, the file upload (lines 255-425 and 628-775)
SubmitUpload(r) ==
    /\ UNCHANGED other_vars
    /\ page[r].pc = "idle" /\ submitted < MaxSubmitted
    /\ submitted' = submitted + 1
    /\ \E n \in 1..MaxUploadRows :
          /\ n <= Room
          /\ page' = [page EXCEPT ![r].pc = "u_save", ![r].rows = n]
    /\ UNCHANGED <<journal_entries, bdi_assessments, handled, steps, faults>>

UploadSaveRow(r) ==
    /\ UNCHANGED other_vars
    /\ page[r].pc = "u_save"
    /\ LET id == SetMin(FreeIds) IN
       \/ /\ NoFault
          /\ journal_entries' = save_journal_entry(id, 1, "by_upload")
          /\ page' = [page EXCEPT ![r].pc = "u_mark",
                         ![r].entries = Append(@, [id |-> id, text |-> 1])]
       \/ \* save_journal_entry raised: st.error, st.stop()
          /\ Fault
          /\ page' = [page EXCEPT ![r] = IdlePage]
          /\ UNCHANGED journal_entries
    /\ UNCHANGED <<bdi_assessments, handled, steps, submitted>>

UploadMarkRow(r) ==
    /\ UNCHANGED other_vars
    /\ page[r].pc = "u_mark"
    /\ LET id == page[r].entries[Len(page[r].entries)].id IN
       journal_entries' = update_journal_entry_status(id, "file_pending", "")
    /\ page' = [page EXCEPT ![r].rows = @ - 1,
                   ![r].pc = IF page[r].rows > 1 THEN "u_save" ELSE "u_chunks"]
    /\ UNCHANGED <<bdi_assessments, handled, steps, submitted, faults>>

UploadChunks(r) ==
    /\ UNCHANGED other_vars
    /\ page[r].pc = "u_chunks"
    /\ \/ \* no chunk of 50 words or more: st.warning, st.stop()
          /\ NoFault
          /\ page' = [page EXCEPT ![r] = IdlePage]
          /\ UNCHANGED handled
       \/ \* some chunk was assessed: the results are aggregated
          /\ NoFault
          /\ page' = [page EXCEPT ![r].pc = "u_fan", ![r].results = "ok"]
          /\ UNCHANGED handled
       \/ \* every chunk raised: aggregated_results = {}
          /\ Fault
          /\ page' = [page EXCEPT ![r].pc = "u_fan", ![r].results = "empty"]
          /\ handled' = [id \in EntryIds |->
                IF \E i \in 1..Len(page[r].entries) :
                       page[r].entries[i].id = id
                THEN "raised" ELSE handled[id]]
    /\ UNCHANGED <<journal_entries, bdi_assessments, steps, submitted>>

UploadFanOut(r) ==
    /\ UNCHANGED other_vars
    /\ page[r].pc = "u_fan"
    /\ LET e == Current(r) IN
       /\ \/ /\ page[r].results = "ok" /\ NoFault
             /\ bdi_assessments' = save_assessment(e.id, e.text)
             /\ handled' = [handled EXCEPT ![e.id] = "ok"]
          \/ \* save_assessment returned None: its result is not looked at
             /\ page[r].results = "ok" /\ Fault
             /\ handled' = [handled EXCEPT ![e.id] = "unsaved"]
             /\ UNCHANGED bdi_assessments
          \/ /\ page[r].results = "empty" /\ NoFault
             /\ UNCHANGED <<bdi_assessments, handled>>
       /\ journal_entries' = update_journal_entry_status(e.id, "completed", "")
    /\ page' = [page EXCEPT ![r].entries = Tail(@),
                   ![r].pc = IF Len(page[r].entries) > 1 THEN "u_fan"
                             ELSE "p_read",
                   ![r].results = IF Len(page[r].entries) > 1 THEN @
                                  ELSE "none"]
    /\ UNCHANGED <<steps, submitted>>

\* ---- Journal.py, the pending-entry processor (lines 1175-1225)
Render(r) ==
    /\ UNCHANGED other_vars
    /\ page[r].pc = "idle"
    /\ Goto(r, "p_read")
    /\ UNCHANGED <<journal_entries, bdi_assessments, handled, steps,
                   submitted, faults>>

\* get_recent_entries(days=None, limit=50), newest first, and the filter
\* analysis_status == 'pending'.
RecentIds(n) ==
    LET ids == {id \in EntryIds : Saved(id)}
        newest == {id \in ids : Cardinality({j \in ids : j > id}) < n}
    IN  newest

RECURSIVE NewestFirst50(_)
NewestFirst50(ids) ==
    IF ids = {} THEN <<>>
    ELSE LET id == SetMax(ids) IN
         <<[id |-> id, text |-> journal_entries[id].entry_text]>>
             \o NewestFirst50(ids \ {id})

pending_to_process ==
    NewestFirst50({id \in RecentIds(PendingLimit) : StatusOf(id) = "pending"})

ReadPending(r) ==
    /\ UNCHANGED other_vars
    /\ page[r].pc = "p_read"
    /\ page' = [page EXCEPT ![r] =
          IF pending_to_process = <<>> THEN IdlePage
          ELSE [IdlePage EXCEPT !.pc = "p_claim",
                                !.entries = pending_to_process]]
    /\ UNCHANGED <<journal_entries, bdi_assessments, handled, steps,
                   submitted, faults>>

ProcessClaim(r) ==
    /\ UNCHANGED other_vars
    /\ page[r].pc = "p_claim"
    /\ journal_entries' =
          update_journal_entry_status(Current(r).id, "processing", "")
    /\ Did("processing", r, Current(r))
    /\ Goto(r, "p_analyse")
    /\ UNCHANGED <<bdi_assessments, handled, submitted, faults>>

ProcessAnalyse(r) ==
    /\ UNCHANGED other_vars
    /\ page[r].pc = "p_analyse"
    /\ LET id == Current(r).id IN
       \/ /\ NoFault
          /\ page' = [page EXCEPT ![r].pc = "p_save", ![r].results = "ok"]
          /\ Did("assessed", r, Current(r))
          /\ UNCHANGED <<journal_entries, handled>>
       \/ \* an exception: the entry is marked failed with str(e)
          /\ Fault
          /\ journal_entries' = update_journal_entry_status(id, "failed", "e")
          /\ handled' = [handled EXCEPT ![id] = "raised"]
          /\ Advance(r, "p_claim", "p_read")
          /\ UNCHANGED steps
    /\ UNCHANGED <<bdi_assessments, submitted>>

ProcessSave(r) ==
    /\ UNCHANGED other_vars
    /\ page[r].pc = "p_save"
    /\ LET e == Current(r) IN
       \/ /\ NoFault
          /\ bdi_assessments' = save_assessment(e.id, e.text)
          /\ handled' = [handled EXCEPT ![e.id] = "ok"]
          /\ Did("saved", r, e)
       \/ \* save_assessment returned None: its result is not looked at
          /\ Fault
          /\ handled' = [handled EXCEPT ![e.id] = "unsaved"]
          /\ UNCHANGED <<bdi_assessments, steps>>
    /\ Goto(r, "p_status")
    /\ UNCHANGED <<journal_entries, submitted>>

ProcessComplete(r) ==
    /\ UNCHANGED other_vars
    /\ page[r].pc = "p_status"
    /\ journal_entries' =
          update_journal_entry_status(Current(r).id, "completed", "")
    /\ Advance(r, "p_claim", "p_read")
    /\ UNCHANGED <<bdi_assessments, handled, steps, submitted, faults>>

\* ---- My History.py, edit and re-analyse (lines 279-364)
Edits(id) == journal_entries[id].entry_text - 1

SubmitEdit(r) ==
    /\ UNCHANGED other_vars
    /\ page[r].pc = "idle" /\ submitted < MaxSubmitted
    /\ submitted' = submitted + 1
    /\ \E id \in EntryIds :
          /\ Saved(id) /\ Edits(id) < MaxEdits
          /\ LET pending_text == journal_entries[id].entry_text + 1 IN
             /\ journal_entries' =
                   [journal_entries EXCEPT ![id].entry_text = pending_text,
                                           ![id].analysis_status = "pending"]
             /\ page' = [page EXCEPT ![r].pc = "e_delete",
                   ![r].entries = <<[id |-> id, text |-> pending_text]>>]
          /\ handled' = [handled EXCEPT ![id] = "none"]
    /\ UNCHANGED <<bdi_assessments, steps, faults>>

EditDelete(r) ==
    /\ UNCHANGED other_vars
    /\ page[r].pc = "e_delete"
    /\ \/ /\ NoFault
          /\ bdi_assessments' =
                SelectSeq(bdi_assessments,
                          LAMBDA a : a.entry_id # Current(r).id)
          /\ Goto(r, "e_analyse")
       \/ \* the delete raised: "Update failed" is printed
          /\ Fault
          /\ page' = [page EXCEPT ![r] = IdlePage]
          /\ UNCHANGED bdi_assessments
    /\ UNCHANGED <<journal_entries, handled, steps, submitted>>

EditAnalyse(r) ==
    /\ UNCHANGED other_vars
    /\ page[r].pc = "e_analyse"
    /\ \/ /\ NoFault
          /\ page' = [page EXCEPT ![r].pc = "e_save", ![r].results = "ok"]
          /\ UNCHANGED handled
       \/ \* an exception: "Update failed" is printed
          /\ Fault
          /\ handled' = [handled EXCEPT ![Current(r).id] = "raised"]
          /\ page' = [page EXCEPT ![r] = IdlePage]
    /\ UNCHANGED <<journal_entries, bdi_assessments, steps, submitted>>

EditSave(r) ==
    /\ UNCHANGED other_vars
    /\ page[r].pc = "e_save"
    /\ LET e == Current(r) IN
       \/ /\ NoFault
          /\ bdi_assessments' = save_assessment(e.id, e.text)
          /\ handled' = [handled EXCEPT ![e.id] = "ok"]
       \/ \* save_assessment caught the error and returned None
          /\ Fault
          /\ handled' = [handled EXCEPT ![e.id] = "unsaved"]
          /\ UNCHANGED bdi_assessments
    /\ Goto(r, "e_status")
    /\ UNCHANGED <<journal_entries, steps, submitted>>

EditComplete(r) ==
    /\ UNCHANGED other_vars
    /\ page[r].pc = "e_status"
    /\ journal_entries' = SetCompleted(Current(r).id)
    /\ page' = [page EXCEPT ![r] = IdlePage]
    /\ UNCHANGED <<bdi_assessments, handled, steps, submitted, faults>>

\* The script of a rendering is stopped where it is: the user leaves the
\* page, or the browser session ends ("Please stay on the page").
Interrupt(r) ==
    /\ UNCHANGED other_vars
    /\ page[r].pc \notin {"idle", "p_read"}
    /\ Fault
    /\ page' = [page EXCEPT ![r] = IdlePage]
    /\ UNCHANGED <<journal_entries, bdi_assessments, handled, steps,
                   submitted>>

JournalStep(r) ==
    \/ SubmitTyped(r) \/ TypedAnalyse(r) \/ TypedSave(r) \/ TypedComplete(r)
    \/ SubmitUpload(r) \/ UploadSaveRow(r) \/ UploadMarkRow(r)
    \/ UploadChunks(r) \/ UploadFanOut(r)
    \/ Render(r) \/ ReadPending(r) \/ ProcessClaim(r) \/ ProcessAnalyse(r)
    \/ ProcessSave(r) \/ ProcessComplete(r)
    \/ SubmitEdit(r) \/ EditDelete(r) \/ EditAnalyse(r) \/ EditSave(r)
    \/ EditComplete(r)
    \/ Interrupt(r)

JournalInit ==
    /\ OrchIdle /\ ParseIdle /\ ScoreIdle /\ DashIdle /\ JournalIdle

JournalNext == \E r \in Renderings : JournalStep(r)

SpecJournal == JournalInit /\ [][JournalNext]_vars

\* What a rendering does by itself once a form was submitted or the page
\* was opened: the script runs on, and an idle page is rendered again.
Continue(r) ==
    \/ TypedAnalyse(r) \/ TypedSave(r) \/ TypedComplete(r)
    \/ UploadSaveRow(r) \/ UploadMarkRow(r) \/ UploadChunks(r)
    \/ UploadFanOut(r)
    \/ Render(r) \/ ReadPending(r) \/ ProcessClaim(r) \/ ProcessAnalyse(r)
    \/ ProcessSave(r) \/ ProcessComplete(r)
    \/ EditDelete(r) \/ EditAnalyse(r) \/ EditSave(r) \/ EditComplete(r)

\* The journal page keeps being rendered and a script that is not
\* interrupted runs to its end.
SpecJournalLive ==
    /\ JournalInit /\ [][JournalNext]_vars
    /\ \A r \in Renderings : WF_vars(Continue(r))

(***************************************************************************)
(* Properties.                                                             *)
(***************************************************************************)
Last(seq) == seq[Len(seq)]

InFallback == pc \in {"fb_request", "fb_sleep", "fb_delay"}
AfterFallback == pc \in {"annotate", "returned"} /\ requested # <<>>

\* The batch path met BatchMaxRetries transient failures in a row.
Exhausted == /\ Len(batch_log) = 3
             /\ \A k \in 1..Len(batch_log) : batch_log[k] = "transient"
\* A batch request failed with an error that is not a 429/504.
HardFailed == \E k \in 1..Len(batch_log) : batch_log[k] = "other"
\* A batch request succeeded.
BatchOk == \E k \in 1..Len(batch_log) : batch_log[k] = "ok"

\* C1: whatever the completion service answers to the batch requests and to
\* the per-symptom requests, assess_all_symptoms never raises, can always go
\* on until it has returned, and returns a map whose keys are exactly
\* Q1..Q21, each entry with a level in 0..3 and a reason.
C1_AlwaysFullMap ==
    /\ pc # "raised"
    /\ pc # "returned" => ENABLED Next
    /\ pc = "returned" =>
         /\ DOMAIN ret = {qid(i) : i \in 1..21}
         /\ \A q \in DOMAIN ret :
              /\ {"level", "reason"} \subseteq DOMAIN ret[q]
              /\ ret[q].level \in 0..3

\* C1 witness: a call returned after the fallback gave one symptom up.
C1_Witness ==
    /\ pc = "returned"
    /\ \E q \in DOMAIN ret : ret[q].reason = RateLimitReason

\* C2: on the batch path the i-th transient failure (i < 3) is followed by a
\* sleep of exactly i x 5 seconds, the next batch request is issued only
\* after that sleep, and the 3rd transient failure starts the per-symptom
\* fallback, without a sleep and without raising.
C2_Step ==
    LET i == Len(batch_log')
        failed == batch_log' # batch_log /\ batch_log'[i] = "transient"
    IN  /\ (failed /\ i < 3) => /\ pc' = "batch_sleep"
                                /\ wait_time' = i * 5 * 1000
        /\ (pc = "batch_sleep" /\ pc' # pc) =>
                /\ pc' = "batch_request"
                /\ slept' = wait_time
                /\ batch_waits' = Append(batch_waits, wait_time)
        /\ (pc' = "batch_request" /\ pc # pc') => pc \in {"idle", "batch_sleep"}
        /\ (failed /\ i = 3) => /\ pc' = "fb_request"
                                /\ fb_i' = 0
                                /\ results' = EmptyDict
                                /\ slept' = slept
                                /\ batch_waits' = batch_waits
        /\ pc' # "raised"

C2_RetryBackoff == [][C2_Step]_vars

\* C2 witness: the fallback starts after three transient failures.
C2_Witness ==
    /\ Exhausted
    /\ pc = "fb_request" /\ requested = <<>>
    /\ batch_waits = <<5000, 10000>>

C4_NoRetryOfOtherErrors ==
    HardFailed =>
        /\ Last(batch_log) = "other"
        /\ \A k \in 1..(Len(batch_log) - 1) : batch_log[k] = "transient"
        /\ Len(batch_waits) = Len(batch_log) - 1
        /\ InFallback \/ AfterFallback
        /\ pc = "returned" => /\ ret = results
                              /\ Len(requested) = 21
                              /\ DOMAIN ret = {qid(i) : i \in 1..21}

\* C4 witness: a call returned whose second batch request failed for good.
C4_Witness ==
    /\ pc = "returned"
    /\ batch_log = <<"transient", "other">>

\* C5: a call begins with a batch request; a per-symptom request is issued
\* only after the batch path failed (a non-transient error, or 3 transient
\* failures); once a batch request succeeded there is no further batch
\* request and no per-symptom request, and the call returns the parse of
\* that response.
C5_BatchFirst ==
    /\ pc \notin {"idle", "batch_request"} => batch_log # <<>>
    /\ (InFallback \/ requested # <<>>) => (Exhausted \/ HardFailed)
    /\ BatchOk =>
         /\ Last(batch_log) = "ok"
         /\ \A k \in 1..(Len(batch_log) - 1) : batch_log[k] = "transient"
         /\ requested = <<>>
         /\ pc \in {"parsing", "annotate", "returned"}
         /\ p_text = outcome.text
         /\ pc = "returned" =>
              /\ p_pc = "done"
              /\ DOMAIN ret = DOMAIN p_results
              /\ \A q \in DOMAIN ret : /\ ret[q].level = p_results[q].level
                                      /\ ret[q].reason = p_results[q].reason

\* C5 witness: the third batch request succeeded and its parse is returned.
C5_Witness ==
    /\ pc = "returned"
    /\ batch_log = <<"transient", "transient", "ok">>
    /\ ret[qid(1)].level = 2

\* C6: the fallback requests the symptoms in the order Q1..Q21, one only
\* after all before it are recorded, sleeps 2.5 s between two consecutive
\* symptoms, and so sleeps 20 times in a run and not after Q21.
C6_SequentialFallback ==
    /\ requested = [k \in 1..Len(requested) |-> qid(k)]
    /\ pc \in {"fb_request", "fb_sleep"} =>
         /\ DOMAIN results = {qid(k) : k \in 1..fb_i}
         /\ Len(requested) \in {fb_i, fb_i + 1}
         /\ delays = fb_i
    /\ (pc = "fb_request" /\ fb_attempt = 0 /\ fb_i > 0) => slept = 2500
    /\ pc = "fb_delay" =>
         /\ DOMAIN results = {qid(k) : k \in 1..(fb_i + 1)}
         /\ Len(requested) = fb_i + 1
         /\ delays = fb_i
         /\ fb_i + 1 < 21
    /\ AfterFallback =>
         /\ delays = 20
         /\ Len(requested) = 21
         /\ DOMAIN results = {qid(k) : k \in 1..21}

\* C6 witness: a fallback run that is over, with its 20 delays.
C6_Witness == pc = "annotate" /\ delays = 20 /\ Len(requested) = 21

\* C7: in the fallback a symptom is requested at most 5 times; a transient
\* failure that is not the 5th is followed by a sleep of attempt x 5 s; a
\* symptom that fails for good (5 transient failures, or another error) is
\* recorded with level 0, the entries of the other symptoms are left as
\* they are, the next symptom is gone on to, and nothing is raised.
C7_Bounded ==
    /\ symptom_requests <= 5
    /\ pc = "fb_sleep" => /\ IsTransientOutcome(outcome)
                          /\ symptom_requests < 5
                          /\ wait_time = symptom_requests * 5 * 1000
    /\ (pc = "fb_request" /\ fb_attempt > 0) =>
            /\ symptom_requests = fb_attempt
            /\ slept = fb_attempt * 5 * 1000
    /\ pc # "raised"
    /\ AfterFallback => Len(requested) = 21

C7_Step ==
    (pc = "fb_request" /\ pc' # pc /\ outcome'.kind = "error"
       /\ ~(IsTransientOutcome(outcome') /\ symptom_requests' < 5)) =>
        LET q == qid(fb_i + 1)
        IN  /\ DOMAIN results' = DOMAIN results \cup {q}
            /\ results'[q].level = 0
            /\ \A o \in DOMAIN results : results'[o] = results[o]
            /\ pc' = IF fb_i + 1 < 21 THEN "fb_delay" ELSE "annotate"

C7_PerSymptomRetry == []C7_Bounded /\ [][C7_Step]_vars

\* C7 witness: Q2 used its 5 attempts up, Q21 failed with another error,
\* and the call returned all the same.
C7_Witness ==
    /\ pc = "returned"
    /\ ret[qid(2)].level = 0
    /\ ret[qid(2)].reason = RateLimitReason
    /\ outcome.kind = "error" /\ ~IsTransientOutcome(outcome)

\* The level a per-symptom response states: the integer of its LEVEL: line.
ReturnedLevel(text) ==
    LET ks == {k \in 1..Len(text) : text[k].head = "LEVEL:"}
    IN  IF ks = {} THEN [ok |-> FALSE, value |-> 0]
        ELSE py_int(text[CHOOSE k \in ks : \A j \in ks : k <= j].rest)

\* C8 as stated: in the fallback, a per-symptom completion that returns a
\* level in 0..3 is recorded with that level; one that returns a level
\* outside 0..3 or none is recorded as level 0, "Unable to assess".
C8_LevelRecorded ==
    (pc = "fb_delay" /\ outcome.kind = "ok") =>
        LET q == qid(fb_i + 1)
            r == ReturnedLevel(outcome.text)
        IN  IF r.ok /\ r.value \in 0..3
            THEN results[q].level = r.value
            ELSE /\ results[q].level = 0
                 /\ results[q].reason = <<"Unable to assess">>

\* A line of the response being parsed carries a tag of symptom i.
Recognised(i) ==
    \E k \in 1..Len(p_text) : p_text[k].head \in {level_key(i), reason_key(i)}

\* The last line of the response being parsed whose head is key.
LastLine(key) ==
    CHOOSE k \in 1..Len(p_text) :
        /\ p_text[k].head = key
        /\ \A j \in (k + 1)..Len(p_text) : p_text[j].head # key

\* C9: the parser never raises: it scans every line of the response, noise
\* included, and returns a map with exactly Q1..Q21, each with a level in
\* 0..3 and a reason; a symptom none of whose tags is in the response is
\* {level 0, "Unable to assess"}.
C9_ParserTotal ==
    /\ p_pc # "raised"
    /\ p_pc = "scan" => p_n <= Len(p_text)
    /\ p_pc = "done" => p_n = Len(p_text)
    /\ p_pc = "done" =>
         /\ DOMAIN p_results = {qid(i) : i \in 1..21}
         /\ \A i \in 1..21 :
              LET e == p_results[qid(i)]
              IN  /\ DOMAIN e = {"level", "reason"}
                  /\ e.level \in 0..3
                  /\ ~Recognised(i) =>
                        e = [level |-> 0, reason |-> <<"Unable to assess">>]

\* C9 witness: a response of noise lines only was parsed to the all-default map.
C9_Witness ==
    /\ p_pc = "done"
    /\ Len(p_text) >= 2
    /\ \A i \in 1..21 : ~Recognised(i)
    /\ \A q \in DOMAIN p_results :
          p_results[q] = [level |-> 0, reason |-> <<"Unable to assess">>]

\* C10: for every symptom, the parsed level is the one of the last
\* Qn_LEVEL line of the response and the parsed reason the one of the last
\* Qn_REASON line, when the response has such a line.
C10_LastWins ==
    p_pc = "done" =>
        \A i \in 1..21 :
            /\ (\E k \in 1..Len(p_text) : p_text[k].head = level_key(i)) =>
                  p_results[qid(i)].level
                      = ParsedLevel(p_text[LastLine(level_key(i))].rest)
            /\ (\E k \in 1..Len(p_text) : p_text[k].head = reason_key(i)) =>
                  p_results[qid(i)].reason
                      = ParsedReason(p_text[LastLine(reason_key(i))].rest)

\* C10 witness: Q1_LEVEL: 2, then Q1_LEVEL: 3, then noise, parsed to level 3.
C10_Witness ==
    /\ p_pc = "done"
    /\ Len(p_text) = 3
    /\ p_text[1] = Line(level_key(1), <<" ", "2">>)
    /\ p_text[2] = Line(level_key(1), <<" ", "3", " ">>)
    /\ p_text[3] = Line("", <<>>)
    /\ p_results[qid(1)].level = 3

\* The value of a Qn_LEVEL line is not an integer, or one outside 0..3.
BadLevel(rest) ==
    LET p == py_int(rest) IN ~p.ok \/ p.value < 0 \/ p.value > 3

\* C11 as stated: a symptom whose (last) Qn_LEVEL line carries a value that
\* is no integer or lies outside 0..3 is parsed to {level 0, "Unable to
\* assess"}, whatever Qn_REASON line the response has for it.
C11_BadLevelUnableToAssess ==
    p_pc = "done" =>
        \A i \in 1..21 :
            ((\E k \in 1..Len(p_text) : p_text[k].head = level_key(i))
               /\ BadLevel(p_text[LastLine(level_key(i))].rest)) =>
                p_results[qid(i)] = [level |-> 0, reason |-> <<"Unable to assess">>]

\* Every item of the assessment is a dict with a level in 0..3.
ValidLevels(res) ==
    /\ DOMAIN res = {qid(i) : i \in 1..21}
    /\ \A q \in DOMAIN res : /\ "raw" \notin DOMAIN res[q]
                             /\ "level" \in DOMAIN res[q]
                             /\ res[q].level \in 0..3

\* The band of the section 4.3 table that holds the score x, if any.
TableBand(x) ==
    IF Le(Whole(0), x) /\ Le(x, Whole(9)) THEN "Minimal"
    ELSE IF Le(Whole(10), x) /\ Le(x, Whole(18)) THEN "Mild"
    ELSE IF Le(Whole(19), x) /\ Le(x, Whole(29)) THEN "Moderate"
    ELSE IF Le(Whole(30), x) /\ Le(x, Whole(63)) THEN "Severe"
    ELSE "Unknown"

\* C12: for an assessment of 21 levels in 0..3 the total score is the sum
\* of the levels and lies in 0..63; every integer score in 0..63 lies in
\* exactly one band of CATEGORIES and gets that band's label, Minimal 0-9,
\* Mild 10-18, Moderate 19-29, Severe 30-63; a score in no band gets
\* "Unknown".
C12_ScoreAndBands ==
    /\ \A n \in 0..63 :
         Cardinality({k \in 1..Len(CATEGORIES) :
                        CATEGORIES[k].min_score <= n
                          /\ n <= CATEGORIES[k].max_score}) = 1
    /\ (s_pc = "scored" /\ ValidLevels(assessment_results)) =>
         /\ total_score
              = SeqSum([i \in 1..21 |-> assessment_results[qid(i)].level])
         /\ total_score \in 0..63
         /\ category \in {"Minimal", "Mild", "Moderate", "Severe"}
    /\ s_pc = "scored" => category = TableBand(Whole(total_score))
    /\ s_pc = "averaged" =>
         /\ category = TableBand(total_score)
         /\ (total_score.den = 1 /\ total_score.num \in 0..63) =>
                category # "Unknown"
         /\ (Lt(total_score, Whole(0)) \/ Lt(Whole(63), total_score)) =>
                category = "Unknown"

\* C12 witness: an assessment of valid levels scored 18 and labelled Mild,
\* the last score of its band.
C12_Witness ==
    /\ s_pc = "scored"
    /\ ValidLevels(assessment_results)
    /\ total_score = 18
    /\ category = "Mild"

\* The session frame has been built from entry_df.
Built == d_pc \in {"sessions", "stopped", "gated", "analysed"}
           /\ session_df # NoValue

\* The batch identifier of row k of entry_df (none without the column).
BatchOf(k) ==
    IF {"entry_type", "uploaded_file"} \subseteq entry_df.columns
    THEN entry_df.rows[k].uploaded_file ELSE <<>>

IdOf(k) == IF "entry_id" \in entry_df.columns THEN entry_df.rows[k].entry_id
           ELSE <<"None">>

\* The rows of entry_df with a valid timestamp.
ValidEntries == {k \in 1..Len(entry_df.rows) : ~entry_df.rows[k].datetime.nat}

Members(f) == {k \in ValidEntries : BatchOf(k) = f}

RECURSIVE SumScores(_)
SumScores(ks) ==
    IF ks = {} THEN 0
    ELSE LET k == CHOOSE x \in ks : TRUE
         IN  entry_df.rows[k].bdi_total_score + SumScores(ks \ {k})

\* C13: the sessions partition the entries with a valid timestamp: one
\* session for every entry without a batch identifier, carrying that entry's
\* own timestamp, score and label; exactly one session for every batch
\* identifier, whose score is the mean over exactly the entries of that
\* identifier; and no other session.
C13_SessionsPartitionEntries ==
    Built =>
        LET S      == session_df.rows
            single == Members(<<>>)
            files  == {BatchOf(k) : k \in ValidEntries} \ {<<>>}
            same(j, k) ==
                /\ S[j].session_type = "typed"
                /\ S[j].session_id = IdOf(k)
                /\ S[j].datetime = entry_df.rows[k].datetime
                /\ S[j].bdi_total_score.num = entry_df.rows[k].bdi_total_score
                /\ S[j].bdi_total_score.den = 1
                /\ S[j].sentiment_label = entry_df.rows[k].sentiment_label
        IN  /\ Len(S) = Cardinality(single) + Cardinality(files)
            /\ \A k \in single :
                 Cardinality({j \in 1..Len(S) : same(j, k)})
                   = Cardinality({k2 \in single : \E j \in 1..Len(S) :
                                     same(j, k) /\ same(j, k2)})
            /\ \A k \in single : \E j \in 1..Len(S) : same(j, k)
            /\ \A f \in files :
                 /\ Cardinality({j \in 1..Len(S) : S[j].session_id = f}) = 1
                 /\ \A j \in 1..Len(S) : S[j].session_id = f =>
                       /\ S[j].session_type = "upload"
                       /\ S[j].bdi_total_score.num * Cardinality(Members(f))
                            = SumScores(Members(f)) * S[j].bdi_total_score.den

\* C13 witness: three entries of two uploads and no other gave two sessions.
C13_Witness ==
    /\ Built
    /\ Len(entry_df.rows) = 3
    /\ {BatchOf(k) : k \in ValidEntries}
         = {<<"chat.txt", "_", "T969">>, <<"my", "_", "chat.txt", "_", "T984">>}
    /\ Cardinality(ValidEntries) = 3
    /\ Len(session_df.rows) = 2

\* C14: the session of an upload carries the time written in the upload's
\* identifier, whatever the timestamps of its messages are, and not the
\* timestamp of any of them.
C14_BatchProcessingTime ==
    Built =>
        \A j \in 1..Len(session_df.rows) :
            LET r == session_df.rows[j]
            IN  r.session_type = "upload" =>
                  /\ r.session_id = <<"chat.txt", "_", "T969">>
                        => r.datetime = [t |-> 969, nat |-> FALSE]
                  /\ r.session_id = <<"my", "_", "chat.txt", "_", "T984">>
                        => r.datetime = [t |-> 984, nat |-> FALSE]
                  /\ r.session_id \in {<<"chat.txt", "_", "T969">>,
                                       <<"my", "_", "chat.txt", "_", "T984">>}
                  /\ \A k \in Members(r.session_id) :
                        r.datetime # entry_df.rows[k].datetime

\* C14 witness: an upload of two messages of different days became a
\* session, timestamped later than both.
C14_Witness ==
    /\ Built
    /\ \E j \in 1..Len(session_df.rows) :
         LET r == session_df.rows[j]
         IN  /\ r.session_type = "upload"
             /\ Cardinality({entry_df.rows[k].datetime.t \div 24 :
                               k \in Members(r.session_id)}) = 2
             /\ \A k \in Members(r.session_id) :
                   entry_df.rows[k].datetime.t < r.datetime.t

\* The number of entries of the upload f with the sentiment label l.
LabelCount(f, l) ==
    Cardinality({k \in Members(f) : entry_df.rows[k].sentiment_label = l})

\* C15 as stated: the sentiment of an upload's session is the most frequent
\* label of its entries, and "Neutral" whenever two or more labels are the
\* most frequent ones, Positive and Negative alone included.
C15_DominantSentiment ==
    Built =>
        \A j \in 1..Len(session_df.rows) :
            LET r    == session_df.rows[j]
                labs == {"Positive", "Neutral", "Negative"}
                top  == {l \in labs : \A m \in labs :
                            LabelCount(r.session_id, m) <= LabelCount(r.session_id, l)}
            IN  r.session_type = "upload" =>
                  IF Cardinality(top) = 1 THEN r.sentiment_label \in top
                  ELSE r.sentiment_label = "Neutral"

\* The analysis of session_df has been returned.
Analysed == d_pc = "analysed"

\* The valid sessions of session_df: those with a timestamp and a score.
ValidSessions ==
    {k \in 1..Len(session_df.rows) :
        /\ ~session_df.rows[k].datetime.nat
        /\ session_df.rows[k].bdi_total_score.den # 0}

TimeOf(k) == session_df.rows[k].datetime.t

\* The place of a valid session in chronological order (the timestamps of
\* a history differ).
Rank(k) == Cardinality({j \in ValidSessions : TimeOf(j) <= TimeOf(k)})

WindowSessions ==
    {k \in ValidSessions :
        \A j \in ValidSessions : TimeOf(k) >= TimeOf(j) - 30 * 24}

\* The session scores 10 or more.
Low(k) == session_df.rows[k].bdi_total_score.num
            >= 10 * session_df.rows[k].bdi_total_score.den

AllMaximal == \A k \in ValidSessions :
                 session_df.rows[k].bdi_total_score = [num |-> 63, den |-> 1]

\* C17: with fewer than 10 valid sessions in the whole history the
\* analysis returns depression_detected = FALSE and confidence_level =
\* "Low", whatever the scores and the timestamps.
C17_MinimumDataGate ==
    (Analysed /\ Cardinality(ValidSessions) < 10) =>
        /\ analysis.depression_detected = FALSE
        /\ analysis.confidence_level = "Low"

\* C17 witness: 9 valid sessions (and a row without a timestamp), all
\* scoring 63, analysed: nothing detected.
C17_Witness ==
    /\ Analysed
    /\ Len(session_df.rows) = 10
    /\ Cardinality(ValidSessions) = 9
    /\ AllMaximal
    /\ analysis.depression_detected = FALSE

\* Half of the sessions of the window or more score 10 or more.
ProportionRule ==
    LET window == WindowSessions
    IN  2 * Cardinality({k \in window : Low(k)}) >= Cardinality(window)

\* Five sessions of the window, consecutive in time, all score 10 or more:
\* five that score 10 or more with no other session of the window between
\* the first and the last of them.
StreakRule ==
    LET window == WindowSessions
    IN  \E first, last \in window :
            LET run == {k \in window : TimeOf(first) <= TimeOf(k)
                                        /\ TimeOf(k) <= TimeOf(last)}
            IN  /\ Cardinality(run) = 5
                /\ \A k \in run : Low(k)

\* C18: depression_detected is TRUE exactly when the history has at least
\* 10 valid sessions and, among the sessions within 30 days of the latest,
\* at least half score 10 or more or 5 consecutive ones all do.
C18_DetectionRule ==
    Analysed =>
        (analysis.depression_detected
           <=> /\ Cardinality(ValidSessions) >= 10
               /\ ProportionRule \/ StreakRule)

\* C18 witness: a run of 5 detected in a window less than half of whose
\* sessions score 10 or more.
C18_Witness ==
    /\ Analysed
    /\ StreakRule /\ ~ProportionRule
    /\ analysis.depression_detected

RECURSIVE SumRanked(_)
SumRanked(ks) ==
    IF ks = {} THEN 0
    ELSE LET k == CHOOSE x \in ks : TRUE
         IN  session_df.rows[k].bdi_total_score.num + SumRanked(ks \ {k})

Earlier == {k \in ValidSessions : Rank(k) <= Cardinality(ValidSessions) \div 2}
Later == ValidSessions \ Earlier

WholeScores == \A k \in ValidSessions : session_df.rows[k].bdi_total_score.den = 1

\* recent_mean < earlier_mean - 0.5, and recent_mean > earlier_mean + 0.5,
\* the means being sumE / nE and sumR / nR.
RecentLower(sumE, nE, sumR, nR) == 2 * sumR * nE < 2 * sumE * nR - nE * nR
RecentHigher(sumE, nE, sumR, nR) == 2 * sumR * nE > 2 * sumE * nR + nE * nR

StrictlyDecreasing ==
    \A j, k \in ValidSessions :
        TimeOf(j) < TimeOf(k) =>
            session_df.rows[j].bdi_total_score.num
              > session_df.rows[k].bdi_total_score.num

Last7 == {k \in ValidSessions : Rank(k) > Cardinality(ValidSessions) - 7}

\* The mean total / count lies in lo..hi.
MeanWithin(total, count, lo, hi) ==
    /\ lo * count <= total
    /\ total <= hi * count

\* C20: overall_severity is the label of the band of the mean score of the
\* 7 latest valid sessions of the whole history, inside the 30-day window
\* or not; between two bands it is the label of one of the two.
C20_SeverityOfLastSeven ==
    (Analysed /\ WholeScores /\ ValidSessions # {}) =>
        LET total == SumRanked(Last7)
            count == Cardinality(Last7)
            label == analysis.overall_severity
        IN  /\ MeanWithin(total, count, 0, 9) => label = "Minimal"
            /\ MeanWithin(total, count, 10, 18) => label = "Mild"
            /\ MeanWithin(total, count, 19, 29) => label = "Moderate"
            /\ MeanWithin(total, count, 30, 63) => label = "Severe"
            /\ MeanWithin(total, count, 9, 10) => label \in {"Minimal", "Mild"}
            /\ MeanWithin(total, count, 18, 19) => label \in {"Mild", "Moderate"}
            /\ MeanWithin(total, count, 29, 30) => label \in {"Moderate", "Severe"}

\* C20 witness: of the 7 latest sessions one is older than the window and
\* decides the label: the 6 in the window score 10, it scores 9, Minimal.
C20_Witness ==
    /\ Analysed
    /\ Cardinality(ValidSessions) >= 8
    /\ Cardinality(Last7 \cap WindowSessions) = 6
    /\ \A k \in Last7 \cap WindowSessions :
          session_df.rows[k].bdi_total_score = [num |-> 10, den |-> 1]
    /\ \A k \in Last7 \ WindowSessions :
          session_df.rows[k].bdi_total_score = [num |-> 9, den |-> 1]
    /\ analysis.overall_severity = "Minimal"

\* The requirement check of the page has run.
Evaluated == d_pc \in {"gated", "analysed", "stopped"} /\ req # NoValue

\* The journal is one import batch of several assessed messages dated on
\* several days, all of them and the upload within 30 days of the reading.
OneBatch ==
    /\ Len(stored) >= 2
    /\ \A k \in 1..Len(stored) :
          /\ stored[k].entry_type = "by_upload"
          /\ stored[k].uploaded_file = stored[1].uploaded_file
          /\ ~stored[k].assessment.none
          /\ stored[k].entry_datetime.t >= now - 30 * 24
    /\ Cardinality({stored[k].entry_datetime.t \div 24 : k \in 1..Len(stored)}) >= 2
    /\ _parse_uploaded_file_timestamp(stored[1].uploaded_file).t >= now - 30 * 24

\* C16: on the read path of the dashboard one import batch of many
\* messages dated on several days is one session and counts as 1 distinct
\* day in the 30-day requirement check.
C16_BatchIsOneSession ==
    (Evaluated /\ OneBatch) =>
        /\ Len(session_df.rows) = 1
        /\ req.recent_entries = 1
        /\ req.distinct_days = 1

\* The level session k (of the window) gives symptom i, if it gives one.
Scores(k, i) == qid(i) \in DOMAIN session_df.rows[k].assessment_data
LevelOf(k, i) == session_df.rows[k].assessment_data[qid(i)].level

\* The symptoms some session of the window scores.
Scored == {i \in 1..21 : \E k \in WindowSessions : Scores(k, i)}

RECURSIVE SumLevels(_, _)
SumLevels(ks, i) ==
    IF ks = {} THEN 0
    ELSE LET k == CHOOSE x \in ks : TRUE
         IN  LevelOf(k, i) + SumLevels(ks \ {k}, i)

ScoringSessions(i) == {k \in WindowSessions : Scores(k, i)}
TotalOf(i) == SumLevels(ScoringSessions(i), i)
CountOf(i) == Cardinality(ScoringSessions(i))

\* The average of symptom i is above, or equal to, that of symptom j.
AverageAbove(i, j) == TotalOf(i) * CountOf(j) > TotalOf(j) * CountOf(i)
AverageEqual(i, j) == TotalOf(i) * CountOf(j) = TotalOf(j) * CountOf(i)

\* Symptom i appears before symptom j: in an earlier session of the
\* window, or in the same one and earlier in the questionnaire.
FirstSession(i) == CHOOSE k \in ScoringSessions(i) :
                      \A j \in ScoringSessions(i) : TimeOf(k) <= TimeOf(j)
AppearsBefore(i, j) ==
    \/ TimeOf(FirstSession(i)) < TimeOf(FirstSession(j))
    \/ TimeOf(FirstSession(i)) = TimeOf(FirstSession(j)) /\ i < j

\* Symptom i is listed before symptom j.
ListedBefore(i, j) ==
    \/ AverageAbove(i, j)
    \/ AverageEqual(i, j) /\ AppearsBefore(i, j)

SymptomNames ==
    << "Sadness", "Pessimism", "Past Failure", "Loss of Pleasure",
       "Guilty Feelings" >>

\* C21: top_symptoms holds at most 3 names: the symptoms with the highest
\* average score over the sessions of the detection window, in descending
\* average, equal averages in the order of their first appearance.
C21_TopSymptoms ==
    (Analysed /\ ValidSessions # {}) =>
        LET top == analysis.top_symptoms
        IN  /\ Len(top) = (IF Cardinality(Scored) < 3 THEN Cardinality(Scored)
                           ELSE 3)
            /\ \A p \in 1..Len(top) :
                  \E i \in Scored :
                      /\ top[p] = SymptomNames[i]
                      /\ Cardinality({j \in Scored : ListedBefore(j, i)}) = p - 1

\* C21 witness: five symptoms are scored in the window, the session before
\* the window scores one that the window does not put first, and two of
\* the three listed have the same average.
C21_Witness ==
    /\ Analysed
    /\ Cardinality(Scored) = 5
    /\ ValidSessions \ WindowSessions # {}
    /\ Len(analysis.top_symptoms) = 3
    /\ \E i, j \in Scored :
          /\ i # j /\ AverageEqual(i, j)
          /\ analysis.top_symptoms[2] = SymptomNames[i]
          /\ analysis.top_symptoms[3] = SymptomNames[j]

\* C29: when depression is detected, more than one session of the recent
\* window scores 10 or more.
C29_NeverASingleBadDay ==
    (Analysed /\ analysis.depression_detected) =>
        Cardinality({k \in WindowSessions : Low(k)}) > 1

\* An average total score has been categorised and lies in [0, 63].
AverageCategorised ==
    /\ s_pc = "averaged"
    /\ Le(Whole(0), total_score) /\ Le(total_score, Whole(63))

\* C27: on every score in [0, 63], whole or not, the label functions used
\* for sessions and get_depression_category return the same one of
\* Minimal, Mild, Moderate and Severe.
C27_LabelFunctionsAgree ==
    AverageCategorised =>
        /\ category \in {"Minimal", "Mild", "Moderate", "Severe"}
        /\ _label_severity(total_score) = category
        /\ page_label_severity(total_score) = category

\* The requests, waits and delays of the call so far are within their
\* budgets; a symptom that sleeps has slept fb_attempt times before.
C26_Bounded ==
    /\ Len(batch_log) <= 3
    /\ Len(batch_waits) <= 2
    /\ Len(requested) <= 21
    /\ symptom_requests <= 5
    /\ fb_attempt <= 4
    /\ pc = "fb_sleep" => fb_attempt < 4
    /\ delays <= 20

\* C26: every call returns, after at most 3 batch requests and 2 batch
\* waits, at most 5 requests and 4 waits for each of at most 21 symptoms
\* (105 requests), and at most 20 delays between symptoms.
C26_Terminates == []C26_Bounded /\ <>(pc = "returned")

\* C26 witness: the call returned after 3 batch requests, 2 batch waits,
\* the 21 symptoms with 20 delays, the last symptom asked more than once.
C26_Witness ==
    /\ pc = "returned"
    /\ Len(batch_log) = 3 /\ Len(batch_waits) = 2
    /\ Len(requested) = 21 /\ delays = 20
    /\ symptom_requests > 1

\* ---- the analysis status of an entry (SpecJournal)
Statuses == {"pending", "processing", "completed", "failed"}

AllowedMove(from, to) ==
    \/ from = to
    \/ from = "pending" /\ to = "processing"
    \/ from = "processing" /\ to \in {"completed", "failed"}

\* C22: on every analysis path an entry's analysis status is one of pending,
\* processing, completed and failed, and a step changes it only along
\* pending -> processing -> completed | failed.
C22_StatusMachine ==
    [][\A id \in EntryIds :
          journal_entries'[id] # NoValue =>
             /\ journal_entries'[id].analysis_status \in Statuses
             /\ Saved(id) => AllowedMove(StatusOf(id),
                                 journal_entries'[id].analysis_status)]_vars

\* A rendering is still working on the entry.
Handling(id) ==
    \E r \in Renderings :
       /\ page[r].pc \notin {"idle", "p_read"}
       /\ \E i \in 1..Len(page[r].entries) : page[r].entries[i].id = id

\* The last assessment of the entry failed: the analysis raised, or the
\* assessment could not be saved.
AssessmentFailed(id) == Saved(id) /\ handled[id] \in {"raised", "unsaved"}

\* C23: whenever the assessment of an entry fails (the analysis raises or
\* the assessment cannot be saved), the rendering leaves the entry in status
\* failed with the error message kept: not pending, processing or completed.
C23_FailureIsRecorded ==
    \A id \in EntryIds :
       AssessmentFailed(id) /\ ~Handling(id) =>
          StatusOf(id) = "failed" /\ journal_entries[id].analysis_error # ""

\* C30: an entry whose status is completed has an assessment stored for it,
\* on every analysis path.
C30_CompletedHasAssessment ==
    \A id \in EntryIds :
       Saved(id) /\ StatusOf(id) = "completed" => AssessmentsOf(id) # <<>>

Texts == 1..(MaxEdits + 1)

\* The renderings whose pending-entry processor took the step on the entry
\* while it had the text.
Took(step, id, text) == {r \in Renderings : <<step, r, id, text>> \in steps}

\* C24: whatever the interleaving of two renderings that both read the
\* pending list, no entry is moved to processing by both, no entry is
\* assessed by both and no entry gets an assessment stored by both.
C24_AnalysedOnce ==
    \A id \in EntryIds, text \in Texts :
       /\ Cardinality(Took("processing", id, text)) <= 1
       /\ Cardinality(Took("assessed", id, text)) <= 1
       /\ Cardinality(Took("saved", id, text)) <= 1

\* The entry's text was edited and the entry is shown as analysed.
EditedAndAnalysed(id) ==
    Saved(id) /\ Edits(id) > 0 /\ StatusOf(id) = "completed"

Terminal(id) == Saved(id) /\ StatusOf(id) \in {"completed", "failed"}

\* C28: when the journal page keeps being rendered, every saved entry (one
\* left behind by an interrupted file upload included) is eventually
\* completed or failed.
C28_EveryEntryGetsAnalysed ==
    \A id \in EntryIds : [](Saved(id) => <>Terminal(id))


====
